---- MODULE Spec2Model ----
(***************************************************************************)
(* The durak rules engine (main.py GameTree, players.py Player, tools.py   *)
(* Card) and the decision procedure of its players, as a state machine.    *)
(*                                                                         *)
(* Cards are objects with identity: a heap `cards` maps a cell to the      *)
(* fields of the Card object that lives there, and every list of a game    *)
(* (deck, hands, table, card_collection) holds cells.  Three games can be  *)
(* alive at once: "o", the game that main.py plays; "c", the copy a search *)
(* player makes of it in choose_action; "g", the copy a rollout plays on.  *)
(* The deck is scaled down: NumSuits * NumValues cards instead of 4 * 9,   *)
(* hands of HandSize instead of 6.                                         *)
(***************************************************************************)
EXTENDS Integers, Sequences, FiniteSets, TLC

VARIABLES game, cards, pc, kind, ret,
          nodes, current_traversals, player_name, rollouts, raised

(* the search tree of the player who decides: mcts.py MCTreeFPV *)
tree == <<nodes, current_traversals, player_name, rollouts, raised>>

vars == <<game, cards, pc, kind, ret, tree>>

(* ----------------------------- bounds --------------------------------- *)
NumSuits == 2
NumValues == 3
HandSize == 2
MaxPlayers == 3
MaxActions == 8
MaxPrefix == 2
MaxRollout == 3

(* ------------------------ program constants --------------------------- *)
MinPlayers == 2

(* main.py starts the game with its first player as main attacker *)
MainAttacker == 1

None == 0 - 1

NumCards == NumSuits * NumValues

Ace == NumValues - 1

all_cards == (0 .. NumSuits - 1) \X (0 .. NumValues - 1)

Slots == {"o", "c", "g"}

(* "t" is the region of a copy that is dropped within the step that makes it *)
Base(slot) ==
    CASE slot = "o" -> 0
      [] slot = "c" -> NumCards
      [] slot = "g" -> 2 * NumCards
      [] OTHER -> 3 * NumCards

RegionCells(slot) == Base(slot) + 1 .. Base(slot) + NumCards

Cells == 1 .. 3 * NumCards

(* ------------------------------ helpers ------------------------------- *)
Range(s) == { s[i] : i \in 1 .. Len(s) }

MinOf(S) == CHOOSE x \in S : \A y \in S : x <= y

Less(a, b) == a[1] < b[1] \/ (a[1] = b[1] /\ a[2] < b[2])

RECURSIVE SortedSeq(_)
SortedSeq(S) ==
    IF S = {} THEN << >>
    ELSE LET m == CHOOSE x \in S : \A y \in S \ {x} : Less(x, y)
         IN  <<m>> \o SortedSeq(S \ {m})

RemoveAt(s, i) == SubSeq(s, 1, i - 1) \o SubSeq(s, i + 1, Len(s))

At(s, i) == s[i + 1]

RECURSIVE Flatten(_)
Flatten(pairs) ==
    IF pairs = << >> THEN << >>
    ELSE <<Head(pairs)[1], Head(pairs)[2]>> \o Flatten(Tail(pairs))

(* ------------------------------- Card --------------------------------- *)
NewCard ==
    [suit |-> None, value |-> None, trump_suit |-> None,
     is_public |-> FALSE, is_private |-> FALSE, is_unknown |-> TRUE]

Ident(cd) == <<cd.suit, cd.value>>

reset(cd) ==
    [cd EXCEPT !.suit = None, !.value = None, !.trump_suit = None,
               !.is_public = FALSE, !.is_private = FALSE, !.is_unknown = TRUE]

is_trump(cd) == cd.suit = cd.trump_suit

(* variant: the card bound is still marked unknown *)
from_suit_value_unknown(cd, s, v) ==
    [cd EXCEPT !.suit = s, !.value = v]

from_suit_value(cd, s, v) ==
    [cd EXCEPT !.suit = s, !.value = v, !.is_unknown = FALSE]

(* ------------------------------ GameTree ------------------------------ *)
(* A world W is a game record W.g together with the heap W.h it reads.     *)
NoGame ==
    [made |-> FALSE, players |-> << >>, hand |-> << >>, deck |-> << >>,
     card_collection |-> << >>, history |-> << >>, attackers |-> << >>,
     defender |-> None, current_attacker |-> 0, player_to_play |-> None,
     draw_order |-> << >>, attacker_to_start_throwing |-> None,
     last_played_attacker |-> None, reflected_trumps |-> << >>,
     current_action |-> "Attack", pairs_finished |-> << >>,
     cards_to_defend |-> << >>, is_end_state |-> FALSE, loser |-> None,
     error |-> "none"]

Hand(W, p) == W.g.hand[p]

get_unknown_cards(W) ==
    all_cards \ { Ident(W.h[x]) :
                  x \in { y \in Range(W.g.card_collection) : ~W.h[y].is_unknown } }

get_non_public_cards(W) ==
    all_cards \ { Ident(W.h[x]) :
                  x \in { y \in Range(W.g.card_collection) : W.h[y].is_public } }

(* ------------------------------- Player ------------------------------- *)
(* variant: a card drawn stays on top of the deck *)
RECURSIVE fill_hand_peek(_, _)
fill_hand_peek(W, p) ==
    IF HandSize - Len(Hand(W, p)) <= 0 \/ W.g.deck = << >> THEN W
    ELSE fill_hand_peek([W EXCEPT !.g.hand[p] = Append(@, Head(W.g.deck))], p)

RECURSIVE fill_hand(_, _)
fill_hand(W, p) ==
    IF HandSize - Len(Hand(W, p)) <= 0 \/ W.g.deck = << >> THEN W
    ELSE fill_hand([W EXCEPT !.g.hand[p] = Append(@, Head(W.g.deck)),
                             !.g.deck = Tail(@)], p)

(* variant: the last of the order draws first *)
RECURSIVE FillAll_backwards(_, _)
FillAll_backwards(W, order) ==
    IF order = << >> THEN W
    ELSE fill_hand(FillAll_backwards(W, Tail(order)), Head(order))

RECURSIVE FillAll(_, _)
FillAll(W, order) ==
    IF order = << >> THEN W
    ELSE FillAll(fill_hand(W, Head(order)), Tail(order))

(* variant: an Unknown card may be any card of the game *)
possible_card_plays_any(W, p, non_public_cards) ==
    UNION { IF W.h[x].is_unknown THEN all_cards ELSE {Ident(W.h[x])} :
            x \in Range(Hand(W, p)) }

possible_card_plays(W, p, non_public_cards) ==
    UNION { IF W.h[x].is_unknown THEN non_public_cards ELSE {Ident(W.h[x])} :
            x \in Range(Hand(W, p)) }

KnownHand(W, p) ==
    { Ident(W.h[x]) : x \in { y \in Range(Hand(W, p)) : ~W.h[y].is_unknown } }

DiscardMatches(W, p, i, s, v) ==
    LET cd == W.h[Hand(W, p)[i]]
    IN  IF cd.is_unknown
        THEN <<s, v>> \in get_non_public_cards(W) /\ <<s, v>> \notin KnownHand(W, p)
        ELSE cd.suit = s /\ cd.value = v

(* variant: the card played stays in the hand *)
discard_card_keep(W, p, s, v, remove) ==
    LET hand == Hand(W, p)
        idxs == { i \in 1 .. Len(hand) : DiscardMatches(W, p, i, s, v) }
    IN  IF idxs = {}
        THEN [w |-> [W EXCEPT !.g.error = "Card not possible to discard"],
              card |-> None]
        ELSE LET cell == hand[MinOf(idxs)]
             IN  [w |-> [W EXCEPT
                           !.h[cell] = [@ EXCEPT !.suit = s, !.value = v,
                                                 !.is_unknown = FALSE,
                                                 !.is_private = FALSE,
                                                 !.is_public = TRUE]],
                  card |-> cell]

(* discard_card: the world after the call and the cell of the card played *)
discard_card(W, p, s, v, remove) ==
    LET hand == Hand(W, p)
        idxs == { i \in 1 .. Len(hand) : DiscardMatches(W, p, i, s, v) }
    IN  IF idxs = {}
        THEN [w |-> [W EXCEPT !.g.error = "Card not possible to discard"],
              card |-> None]
        ELSE LET idx == MinOf(idxs)
                 cell == hand[idx]
             IN  [w |-> [W EXCEPT
                           !.h[cell] = [@ EXCEPT !.suit = s, !.value = v,
                                                 !.is_unknown = FALSE,
                                                 !.is_private = FALSE,
                                                 !.is_public = TRUE],
                           !.g.hand[p] = IF remove THEN RemoveAt(@, idx) ELSE @],
                  card |-> cell]

PossSlots(W, p, cardset) ==
    SelectSeq([i \in 1 .. Len(Hand(W, p)) |-> W.h[Hand(W, p)[i]]],
              LAMBDA cd : ~cd.is_unknown /\ Ident(cd) \in cardset)

FallbackCount(W, p) ==
    Cardinality({ i \in 1 .. Len(Hand(W, p)) : W.h[Hand(W, p)[i]].is_unknown })

RECURSIVE GreedyAssign(_, _)
GreedyAssign(poss2, cs) ==
    IF cs = << >> THEN TRUE
    ELSE LET fit == { i \in 1 .. Len(poss2) : Head(cs) \in poss2[i] }
         IN  IF fit = {} THEN FALSE
             ELSE GreedyAssign(RemoveAt(poss2, MinOf(fit)), Tail(cs))

(* variant: the fallbacks are tried before the known cards *)
can_throw_fallback_first(W, p, fallback_identities, cs) ==
    LET known == PossSlots(W, p, Range(cs))
        fallback == FallbackCount(W, p)
        extra == IF fallback < Len(cs) THEN fallback ELSE Len(cs)
        poss == [i \in 1 .. extra |-> fallback_identities]
                    \o [i \in 1 .. Len(known) |-> {Ident(known[i])}]
    IN  IF Len(known) + fallback < Len(cs) THEN FALSE
        ELSE GreedyAssign(poss, cs)

can_throw(W, p, fallback_identities, cs) ==
    LET known == PossSlots(W, p, Range(cs))
        fallback == FallbackCount(W, p)
        extra == IF fallback < Len(cs) THEN fallback ELSE Len(cs)
        poss == [i \in 1 .. Len(known) |-> {Ident(known[i])}]
                    \o [i \in 1 .. extra |-> fallback_identities]
    IN  IF Len(known) + fallback < Len(cs) THEN FALSE
        ELSE GreedyAssign(poss, cs)

(* ------------------------- GameTree.new_trick -------------------------- *)
(* variant: everybody seated stays in the game *)
attackers_seated(W, order) == order

(* variant: the players are seated against the clock *)
attackers_backwards(W, order) ==
    SelectSeq([i \in 1 .. Len(order) |-> order[Len(order) + 1 - i]],
              LAMBDA q : Len(Hand(W, q)) > 0 \/ Len(W.g.deck) > 0)

(* a person is still in the game if his hand is not empty or he can draw *)
attackers_left(W, order) ==
    SelectSeq(order, LAMBDA q : Len(Hand(W, q)) > 0 \/ Len(W.g.deck) > 0)

(* variant: the defender of the last trick loses *)
loser_defender(W, living) == W.g.defender

(* only one person is left in the game, the loser *)
loser_left(W, living) == living[1]

new_trick(W, main_attacker) ==
    LET people == Len(W.g.players)
        found == { i \in 0 .. people - 1 : At(W.g.players, i) = main_attacker }
    IN  IF found = {} THEN [W EXCEPT !.g.error = "Player name not known error"]
        ELSE
        LET idx == MinOf(found)
            order == [i \in 1 .. people |-> At(W.g.players, (idx + i - 1) % people)]
            living == attackers_left(W, order)
            G1 == IF Len(living) = 0
                  THEN [W.g EXCEPT !.attackers = living, !.is_end_state = TRUE,
                                   !.loser = W.g.defender]
                  ELSE IF Len(living) = 1
                  THEN [W.g EXCEPT !.attackers = living, !.is_end_state = TRUE,
                                   !.loser = loser_left(W, living)]
                  ELSE [W.g EXCEPT !.attackers = RemoveAt(living, 2),
                                   !.defender = living[2],
                                   !.current_attacker = 0,
                                   !.player_to_play = living[1],
                                   !.draw_order = RemoveAt(living, 2) \o <<living[2]>>,
                                   !.attacker_to_start_throwing = None,
                                   !.last_played_attacker = None,
                                   !.reflected_trumps = << >>]
        IN  [W EXCEPT !.g = [G1 EXCEPT !.current_action = "Attack",
                                       !.pairs_finished = << >>,
                                       !.cards_to_defend = << >>]]

(* ----------------------- GameTree.allowed_plays ------------------------ *)
(* Weights are exact fractions <<numerator, denominator>> in lowest terms. *)
RECURSIVE Gcd(_, _)
Gcd(a, b) == IF b = 0 THEN a ELSE Gcd(b, a % b)

Frac(n, d) == <<n \div Gcd(n, d), d \div Gcd(n, d)>>

FracAdd(x, y) == Frac(x[1] * y[2] + y[1] * x[2], x[2] * y[2])

RECURSIVE FracSum(_)
FracSum(s) == IF s = << >> THEN <<0, 1>> ELSE FracAdd(Head(s), FracSum(Tail(s)))

ValuesOfPairs(W) == { W.h[x].value : x \in Range(Flatten(W.g.pairs_finished)) }

ValuesOnTable(W) ==
    ValuesOfPairs(W) \cup { W.h[x].value : x \in Range(W.g.cards_to_defend) }

(* variant: any card may be added to a trick in progress *)
AttackPlays_any(W) ==
    LET player == W.g.player_to_play
        poss_plays == possible_card_plays(W, player, get_non_public_cards(W))
    IN  (IF Len(W.g.pairs_finished) > 0 THEN {<<"PassAttack", None>>} ELSE {})
        \cup (IF Len(Hand(W, W.g.defender)) > 0
              THEN { <<"Attack", c>> : c \in poss_plays } ELSE {})

(* variant: an attack is offered against a defender without cards as well *)
AttackPlays_on(W) ==
    LET player == W.g.player_to_play
        poss_plays == possible_card_plays(W, player, get_non_public_cards(W))
        finished == Len(W.g.pairs_finished) > 0
        filtered == IF finished
                    THEN { c \in poss_plays : c[2] \in ValuesOfPairs(W) }
                    ELSE poss_plays
    IN  (IF finished THEN {<<"PassAttack", None>>} ELSE {})
        \cup { <<"Attack", c>> : c \in filtered }

AttackPlays(W) ==
    LET player == W.g.player_to_play
        poss_plays == possible_card_plays(W, player, get_non_public_cards(W))
        finished == Len(W.g.pairs_finished) > 0
        filtered == IF finished
                    THEN { c \in poss_plays : c[2] \in ValuesOfPairs(W) }
                    ELSE poss_plays
    IN  (IF finished THEN {<<"PassAttack", None>>} ELSE {})
        \cup (IF Len(Hand(W, W.g.defender)) > 0
              THEN { <<"Attack", c>> : c \in filtered } ELSE {})

Identities(W, p, cd) ==
    IF cd.is_unknown THEN get_non_public_cards(W) \ KnownHand(W, p)
    ELSE {Ident(cd)}

(* variant: a reflect may leave the new defender one card short *)
ReflectOf_short(W, c) ==
    LET to_defend == W.h[Head(W.g.cards_to_defend)]
        new_defender == At(W.g.attackers, 1 % Len(W.g.attackers))
        max_new_piles == Len(Hand(W, new_defender)) - Len(W.g.cards_to_defend)
    IN  IF Len(W.g.pairs_finished) # 0 THEN {}
        ELSE (IF max_new_piles >= 0 /\ c[2] = to_defend.value
              THEN {<<"Reflect", c>>} ELSE {})
             \cup
             (IF max_new_piles >= 0 /\ c[2] = to_defend.value
                 /\ c[1] = to_defend.trump_suit
                 /\ c \notin Range(W.g.reflected_trumps)
              THEN {<<"ReflectTrump", c>>} ELSE {})

(* variant: a reflect is offered with finished pairs on the table as well *)
ReflectOf_late(W, c) ==
    LET to_defend == W.h[Head(W.g.cards_to_defend)]
        new_defender == At(W.g.attackers, 1 % Len(W.g.attackers))
        max_new_piles == Len(Hand(W, new_defender)) - Len(W.g.cards_to_defend)
    IN  (IF max_new_piles >= 1 /\ c[2] = to_defend.value
         THEN {<<"Reflect", c>>} ELSE {})
        \cup
        (IF max_new_piles >= 0 /\ c[2] = to_defend.value
            /\ c[1] = to_defend.trump_suit
            /\ c \notin Range(W.g.reflected_trumps)
         THEN {<<"ReflectTrump", c>>} ELSE {})

(* the reflect list that one identity of one hand card contributes *)
ReflectOf(W, c) ==
    LET to_defend == W.h[Head(W.g.cards_to_defend)]
        new_defender == At(W.g.attackers, 1 % Len(W.g.attackers))
        max_new_piles == Len(Hand(W, new_defender)) - Len(W.g.cards_to_defend)
    IN  IF Len(W.g.pairs_finished) # 0 THEN {}
        ELSE (IF max_new_piles >= 1 /\ c[2] = to_defend.value
              THEN {<<"Reflect", c>>} ELSE {})
             \cup
             (IF max_new_piles >= 0 /\ c[2] = to_defend.value
                 /\ c[1] = to_defend.trump_suit
                 /\ c \notin Range(W.g.reflected_trumps)
              THEN {<<"ReflectTrump", c>>} ELSE {})

(* the defend list that one identity of one hand card contributes *)
DefendOf(W, c) ==
    LET to_defend == W.h[Head(W.g.cards_to_defend)]
    IN  (IF c[1] = to_defend.trump_suit /\ ~is_trump(to_defend)
         THEN {<<"Defend", c>>} ELSE {})
        \cup
        (IF c[1] = to_defend.suit /\ c[2] > to_defend.value
         THEN {<<"Defend", c>>} ELSE {})

CardReflect(W, p, cd) == UNION { ReflectOf(W, c) : c \in Identities(W, p, cd) }

CardDefend(W, p, cd) == UNION { DefendOf(W, c) : c \in Identities(W, p, cd) }

(* variant: a card spreads one weight over its defends and reflects together *)
PlayWeight_joint(W, p, act) ==
    LET hand == Hand(W, p)
        share(i) ==
            LET cd == W.h[hand[i]]
                lst == CardDefend(W, p, cd) \cup CardReflect(W, p, cd)
            IN  IF act \in lst THEN <<1, Cardinality(lst)>> ELSE <<0, 1>>
    IN  FracSum([i \in 1 .. Len(hand) |-> share(i)])

(* play_options[action]: the sum, over the hand cards that list the action, *)
(* of 1 / len(defend) respectively 1 / len(reflect)                        *)
PlayWeight(W, p, act) ==
    LET hand == Hand(W, p)
        share(i) ==
            LET cd == W.h[hand[i]]
                lst == IF act[1] = "Defend" THEN CardDefend(W, p, cd)
                       ELSE CardReflect(W, p, cd)
            IN  IF act \in lst THEN <<1, Cardinality(lst)>> ELSE <<0, 1>>
    IN  FracSum([i \in 1 .. Len(hand) |-> share(i)])

DefendPlays(W) ==
    LET player == W.g.player_to_play
        keys == UNION { CardDefend(W, player, W.h[x]) \cup CardReflect(W, player, W.h[x]) :
                        x \in Range(Hand(W, player)) }
    IN  { <<k[1], k[2], PlayWeight(W, player, k)>> : k \in keys }
        \cup {<<"Take", None, <<1, 2>>>>}

(* variant: the throws are not limited by what the defender can still take *)
ThrowPlays_unbounded(W) ==
    LET player == W.g.player_to_play
        fallback_identities == get_non_public_cards(W)
        poss_throws == { c \in possible_card_plays(W, player, fallback_identities) :
                         c[2] \in ValuesOnTable(W) }
        max_throws == MinOf({Cardinality(poss_throws), Len(Hand(W, player))})
    IN  {<<"ThrowCards", << >>>>}
        \cup { <<"ThrowCards", SortedSeq(S)>> :
               S \in { T \in SUBSET poss_throws :
                         /\ Cardinality(T) >= 1
                         /\ Cardinality(T) <= max_throws
                         /\ can_throw(W, player, fallback_identities, SortedSeq(T)) } }

(* A throw payload is a tuple of identities; << >> stands for (None,).     *)
ThrowPlays(W) ==
    LET player == W.g.player_to_play
        fallback_identities == get_non_public_cards(W)
        poss_throws == { c \in possible_card_plays(W, player, fallback_identities) :
                         c[2] \in ValuesOnTable(W) }
        available_throws == Len(Hand(W, W.g.defender)) - Len(W.g.cards_to_defend)
        max_throws == MinOf({available_throws, Cardinality(poss_throws),
                             Len(Hand(W, player))})
    IN  {<<"ThrowCards", << >>>>}
        \cup { <<"ThrowCards", SortedSeq(S)>> :
               S \in { T \in SUBSET poss_throws :
                         /\ Cardinality(T) >= 1
                         /\ Cardinality(T) <= max_throws
                         /\ can_throw(W, player, fallback_identities, SortedSeq(T)) } }

poss_actions(W) ==
    CASE W.g.current_action = "Attack" -> AttackPlays(W)
      [] W.g.current_action = "Defend" -> DefendPlays(W)
      [] W.g.current_action = "ThrowCards" -> ThrowPlays(W)
      [] OTHER -> {}

(* the exception allowed_plays raises in W, "none" when it returns *)
allowed_error(W) ==
    IF W.g.current_action = "Attack"
       /\ (W.g.current_attacker >= Len(W.g.attackers)
           \/ At(W.g.attackers, W.g.current_attacker) # W.g.player_to_play)
    THEN "assert attacker == player"
    ELSE IF W.g.current_action = "Defend" /\ W.g.cards_to_defend = << >>
    THEN "IndexError"
    ELSE IF W.g.current_action \notin {"Attack", "Defend", "ThrowCards"}
    THEN "Action not known"
    ELSE IF poss_actions(W) = {} THEN "No choice of actions"
    ELSE "none"

allowed_plays(W) == IF allowed_error(W) = "none" THEN poss_actions(W) ELSE {}

(* ---------------------- GameTree.execute_action ------------------------ *)
Raise(W, msg) == [W EXCEPT !.g.error = msg]

(* variant: after an attack the attacker stays the player to play *)
ExecAttack_stay(W, a) ==
    LET p == W.g.player_to_play
        d == discard_card(W, p, a[2][1], a[2][2], TRUE)
    IN  IF d.card = None THEN d.w
        ELSE [d.w EXCEPT !.g.last_played_attacker = p,
                         !.g.current_action = "Defend",
                         !.g.cards_to_defend = Append(@, d.card)]

ExecAttack(W, a) ==
    LET p == W.g.player_to_play
        d == discard_card(W, p, a[2][1], a[2][2], TRUE)
    IN  IF d.card = None THEN d.w
        ELSE [d.w EXCEPT !.g.last_played_attacker = p,
                         !.g.player_to_play = W.g.defender,
                         !.g.current_action = "Defend",
                         !.g.cards_to_defend = Append(@, d.card)]

ExecDefend(W, a) ==
    IF W.g.cards_to_defend = << >> THEN Raise(W, "IndexError")
    ELSE
    LET card_defended == Head(W.g.cards_to_defend)
        W1 == [W EXCEPT !.g.cards_to_defend = Tail(@)]
        d == discard_card(W1, W.g.player_to_play, a[2][1], a[2][2], TRUE)
        W2 == [d.w EXCEPT !.g.pairs_finished = Append(@, <<card_defended, d.card>>)]
    IN  IF d.card = None THEN d.w
        ELSE IF Len(W2.g.cards_to_defend) = 0
        THEN [W2 EXCEPT !.g.player_to_play = At(W.g.attackers, W.g.current_attacker),
                        !.g.current_action = "Attack"]
        ELSE W2

(* variant: after a take the defender is asked again *)
ExecTake_again(W) ==
    [W EXCEPT !.g.attacker_to_start_throwing = W.g.current_attacker]

ExecTake(W) ==
    [W EXCEPT !.g.current_action = "ThrowCards",
              !.g.player_to_play = At(W.g.attackers, W.g.current_attacker),
              !.g.attacker_to_start_throwing = W.g.current_attacker]

RECURSIVE ThrowAll(_, _, _)
ThrowAll(W, p, cs) ==
    IF cs = << >> THEN W
    ELSE LET d == discard_card(W, p, Head(cs)[1], Head(cs)[2], TRUE)
         IN  IF d.card = None THEN d.w
             ELSE ThrowAll([d.w EXCEPT !.g.cards_to_defend = Append(@, d.card)],
                           p, Tail(cs))

Advance(W) ==
    LET nxt == (W.g.current_attacker + 1) % Len(W.g.attackers)
    IN  [W EXCEPT !.g.current_attacker = nxt,
                  !.g.player_to_play = At(W.g.attackers, nxt)]

(* variant: after taking, the taker opens the next trick *)
ExecThrow_taker(W, a) ==
    LET W1 == ThrowAll(W, W.g.player_to_play, a[2])
        W2 == Advance(W1)
        cards_on_table == Flatten(W2.g.pairs_finished) \o W2.g.cards_to_defend
        W3 == FillAll([W2 EXCEPT !.g.hand[W2.g.defender] = @ \o cards_on_table],
                      W2.g.draw_order)
    IN  IF W1.g.error # "none" THEN W1
        ELSE IF W.g.attacker_to_start_throwing = None THEN Raise(W2, "TypeError")
        ELSE IF W2.g.player_to_play = At(W2.g.attackers, W2.g.attacker_to_start_throwing)
        THEN new_trick(W3, W3.g.defender)
        ELSE W2

(* variant: the trick closes after the first attacker's throw *)
ExecThrow_once(W, a) ==
    LET W1 == ThrowAll(W, W.g.player_to_play, a[2])
        W2 == Advance(W1)
        cards_on_table == Flatten(W2.g.pairs_finished) \o W2.g.cards_to_defend
        W3 == FillAll([W2 EXCEPT !.g.hand[W2.g.defender] = @ \o cards_on_table],
                      W2.g.draw_order)
    IN  IF W1.g.error # "none" THEN W1
        ELSE IF W.g.attacker_to_start_throwing = None THEN Raise(W2, "TypeError")
        ELSE new_trick(W3, At(W3.g.attackers, 1 % Len(W3.g.attackers)))

ExecThrow(W, a) ==
    LET W1 == ThrowAll(W, W.g.player_to_play, a[2])
        W2 == Advance(W1)
        cards_on_table == Flatten(W2.g.pairs_finished) \o W2.g.cards_to_defend
        W3 == FillAll([W2 EXCEPT !.g.hand[W2.g.defender] = @ \o cards_on_table],
                      W2.g.draw_order)
    IN  IF W1.g.error # "none" THEN W1
        ELSE IF W.g.attacker_to_start_throwing = None THEN Raise(W2, "TypeError")
        ELSE IF W2.g.player_to_play = At(W2.g.attackers, W2.g.attacker_to_start_throwing)
        THEN new_trick(W3, At(W3.g.attackers, 1 % Len(W3.g.attackers)))
        ELSE W2

(* variant: passing never closes the trick *)
ExecPass_on(W) == Advance(W)

(* variant: the trick closes when the turn is back at the main attacker *)
ExecPass_first(W) ==
    LET W1 == Advance(W)
        W2 == FillAll(W1, W1.g.draw_order)
    IN  IF W1.g.current_attacker = 0
        THEN IF W2.g.cards_to_defend # << >>
             THEN Raise(W2, "assert cards_to_defend == []")
             ELSE new_trick(W2, W2.g.defender)
        ELSE W1

ExecPass(W) ==
    LET W1 == Advance(W)
        W2 == FillAll(W1, W1.g.draw_order)
    IN  IF W1.g.player_to_play = W1.g.last_played_attacker
        THEN IF W2.g.cards_to_defend # << >>
             THEN Raise(W2, "assert cards_to_defend == []")
             ELSE new_trick(W2, W2.g.defender)
        ELSE W1

(* variant: the attackers list is not pivoted after a reflect *)
Rotate_still(W) ==
    LET num_old_attackers == Len(W.g.attackers)
        k == 1 % num_old_attackers
        new_defender == At(W.g.attackers, k)
        inserted == [W.g.attackers EXCEPT ![k + 1] = W.g.defender]
    IN  [W EXCEPT !.g.last_played_attacker = W.g.player_to_play,
                  !.g.defender = new_defender,
                  !.g.draw_order = inserted \o <<new_defender>>,
                  !.g.attackers = inserted,
                  !.g.current_action = "Defend",
                  !.g.player_to_play = new_defender]

(* variant: the main attacker has to defend the reflected cards *)
Rotate_first(W) ==
    LET new_defender == At(W.g.attackers, 0)
        inserted == [W.g.attackers EXCEPT ![1] = W.g.defender]
    IN  [W EXCEPT !.g.last_played_attacker = W.g.player_to_play,
                  !.g.defender = new_defender,
                  !.g.draw_order = inserted \o <<new_defender>>,
                  !.g.attackers = Tail(inserted) \o <<Head(inserted)>>,
                  !.g.current_action = "Defend",
                  !.g.player_to_play = new_defender]

(* variant: the reflecting defender joins the attackers and defends on *)
Rotate_both(W) ==
    LET num_old_attackers == Len(W.g.attackers)
        k == 1 % num_old_attackers
        new_defender == W.g.defender
        inserted == [W.g.attackers EXCEPT ![k + 1] = W.g.defender]
    IN  [W EXCEPT !.g.last_played_attacker = W.g.player_to_play,
                  !.g.defender = new_defender,
                  !.g.draw_order = inserted \o <<new_defender>>,
                  !.g.attackers = Tail(inserted) \o <<Head(inserted)>>,
                  !.g.current_action = "Defend",
                  !.g.player_to_play = new_defender]

(* the seat rotation shared by Reflect and ReflectTrump *)
Rotate(W) ==
    LET num_old_attackers == Len(W.g.attackers)
        k == 1 % num_old_attackers
        new_defender == At(W.g.attackers, k)
        inserted == [W.g.attackers EXCEPT ![k + 1] = W.g.defender]
    IN  [W EXCEPT !.g.last_played_attacker = W.g.player_to_play,
                  !.g.defender = new_defender,
                  !.g.draw_order = inserted \o <<new_defender>>,
                  !.g.attackers = Tail(inserted) \o <<Head(inserted)>>,
                  !.g.current_action = "Defend",
                  !.g.player_to_play = new_defender]

ExecReflect(W, a) ==
    LET d == discard_card(W, W.g.defender, a[2][1], a[2][2], TRUE)
    IN  IF d.card = None THEN d.w
        ELSE [Rotate(d.w) EXCEPT !.g.cards_to_defend = Append(@, d.card)]

(* variant: the trump shown is not recorded *)
ExecReflectTrump_unrecorded(W, a) ==
    LET d == discard_card(W, W.g.player_to_play, a[2][1], a[2][2], FALSE)
    IN  IF W.g.player_to_play # W.g.defender
        THEN Raise(W, "assert player_to_play == defender")
        ELSE IF d.card = None THEN d.w
        ELSE Rotate(d.w)

ExecReflectTrump(W, a) ==
    LET d == discard_card(W, W.g.player_to_play, a[2][1], a[2][2], FALSE)
    IN  IF W.g.player_to_play # W.g.defender
        THEN Raise(W, "assert player_to_play == defender")
        ELSE IF d.card = None THEN d.w
        ELSE Rotate([d.w EXCEPT !.g.reflected_trumps = Append(@, a[2])])

execute_action(W0, a) ==
    LET W == [W0 EXCEPT !.g.history = Append(@, a)]
    IN  CASE a[1] = "Attack" -> ExecAttack(W, a)
          [] a[1] = "Defend" -> ExecDefend(W, a)
          [] a[1] = "Take" -> ExecTake(W)
          [] a[1] = "ThrowCards" -> ExecThrow(W, a)
          [] a[1] = "PassAttack" -> ExecPass(W)
          [] a[1] = "Reflect" -> ExecReflect(W, a)
          [] a[1] = "ReflectTrump" -> ExecReflectTrump(W, a)
          [] OTHER -> Raise(W, "Action to execute not implemented.")

(* ----------------------- Player.make_cards_known ----------------------- *)
(* the worlds make_cards_known can leave, hand cards i.. still to do       *)
RECURSIVE KnownFrom(_, _, _)
KnownFrom(W, p, i) ==
    IF i > Len(Hand(W, p)) THEN {W}
    ELSE LET cell == Hand(W, p)[i]
         IN  IF ~W.h[cell].is_unknown THEN KnownFrom(W, p, i + 1)
             ELSE UNION { KnownFrom(
                              [W EXCEPT !.h[cell] =
                                  [from_suit_value(@, c[1], c[2]) EXCEPT !.is_private = TRUE]],
                              p, i + 1) : c \in get_unknown_cards(W) }

(* variant: a card is made known as any identity that is not public *)
RECURSIVE KnownFrom_dealt(_, _, _)
KnownFrom_dealt(W, p, i) ==
    IF i > Len(Hand(W, p)) THEN {W}
    ELSE LET cell == Hand(W, p)[i]
         IN  IF ~W.h[cell].is_unknown THEN KnownFrom_dealt(W, p, i + 1)
             ELSE UNION { KnownFrom_dealt(
                              [W EXCEPT !.h[cell] =
                                  [from_suit_value(@, c[1], c[2]) EXCEPT !.is_private = TRUE]],
                              p, i + 1) : c \in get_non_public_cards(W) }

make_cards_known_dealt(W, p) == KnownFrom_dealt(W, p, 1)

(* variant: the cards made known are shown to everybody *)
make_cards_known_shown(W, p) ==
    { [w EXCEPT !.h = [y \in DOMAIN w.h |->
                         IF y \in Range(Hand(w, p))
                         THEN [w.h[y] EXCEPT !.is_public = TRUE, !.is_private = FALSE]
                         ELSE w.h[y]]] : w \in KnownFrom(W, p, 1) }

make_cards_known(W, p) == KnownFrom(W, p, 1)

(* --------------------------- tools.py choices -------------------------- *)
Strip(a) == <<a[1], a[2]>>

(* the actions choose_random_action can return from poss_actions *)
choose_random_action(poss) ==
    IF \E a \in poss : Len(a) = 3 THEN { Strip(a) : a \in poss } ELSE poss

(* --------------------------- GameTree.__init__ ------------------------- *)
World(slot) == [g |-> game[slot], h |-> cards]

RECURSIVE DealHands(_, _)
DealHands(W, ps) ==
    IF ps = << >> THEN W ELSE DealHands(fill_hand(W, Head(ps)), Tail(ps))

Construct(n, main_attacker, bottom) ==
    LET deck == [i \in 1 .. NumCards |-> i]
        h0 == [x \in Cells |->
                 IF x = NumCards
                 THEN [NewCard EXCEPT !.suit = bottom[1], !.value = bottom[2],
                                      !.is_unknown = FALSE, !.is_public = TRUE,
                                      !.trump_suit = bottom[1]]
                 ELSE IF x < NumCards THEN [NewCard EXCEPT !.trump_suit = bottom[1]]
                 ELSE NewCard]
        g0 == [NoGame EXCEPT !.made = TRUE,
                             !.players = [i \in 1 .. n |-> i],
                             !.hand = [i \in 1 .. n |-> << >>],
                             !.deck = deck,
                             !.card_collection = deck]
    IN  new_trick(DealHands([g |-> g0, h |-> h0], g0.players), main_attacker)

Init ==
    \E n \in MinPlayers .. MaxPlayers :
      \E main_attacker \in {MainAttacker} :
        \E bottom \in { c \in all_cards : c[2] # Ace } :
          LET W == Construct(n, main_attacker, bottom)
          IN  /\ game = [s \in Slots |-> IF s = "o" THEN W.g ELSE NoGame]
              /\ cards = W.h
              /\ pc = "idle"
              /\ kind = "none"
              /\ ret = << >>
              /\ nodes = << >>
              /\ current_traversals = << >>
              /\ player_name = [q \in 1 .. MaxPlayers |-> None]
              /\ rollouts = 0
              /\ raised = "none"

Playable(G) == G.made /\ ~G.is_end_state /\ G.error = "none"

(* ------------------------ GameTree.make_deepcopy ----------------------- *)
(* variant: the copy of a card forgets that the card is public *)
make_copy_hidden(cd) ==
    [suit |-> cd.suit, value |-> cd.value, trump_suit |-> cd.trump_suit,
     is_public |-> FALSE, is_private |-> cd.is_private,
     is_unknown |-> cd.is_unknown]

make_copy(cd) ==
    [suit |-> cd.suit, value |-> cd.value, trump_suit |-> cd.trump_suit,
     is_public |-> cd.is_public, is_private |-> cd.is_private,
     is_unknown |-> cd.is_unknown]

(* variant: the copy holds the very cards of the game it copies *)
card_ids_shared(x, from, to) == x

(* card_ids[id(card)]: the cell of the copy of the card at cell x *)
card_ids(x, from, to) == x - Base(from) + Base(to)

(* (f @@ << >> = f: the hands and the heap of the copy are made explicit *)
(* functions for the steps that go on to change them one at a time)      *)
make_deepcopy(W, from, to) ==
    LET G == W.g
        src == Range(G.card_collection)
        m(x) == card_ids(x, from, to)
        ms(s) == [i \in 1 .. Len(s) |-> m(s[i])]
        h2 == [y \in (DOMAIN W.h) \cup { m(x) : x \in src } |->
                 IF \E x \in src : m(x) = y
                 THEN make_copy(W.h[CHOOSE x \in src : m(x) = y])
                 ELSE W.h[y]] @@ << >>
    IN  [g |-> [made |-> TRUE,
                players |-> G.players,
                hand |-> [q \in DOMAIN G.hand |-> ms(G.hand[q])] @@ << >>,
                deck |-> ms(G.deck),
                card_collection |-> ms(G.card_collection),
                history |-> G.history,
                attackers |-> G.attackers,
                defender |-> G.defender,
                current_attacker |-> G.current_attacker,
                player_to_play |-> G.player_to_play,
                draw_order |-> G.draw_order,
                attacker_to_start_throwing |-> G.attacker_to_start_throwing,
                last_played_attacker |-> G.last_played_attacker,
                reflected_trumps |-> G.reflected_trumps,
                current_action |-> G.current_action,
                pairs_finished |->
                    [i \in 1 .. Len(G.pairs_finished) |->
                        <<m(G.pairs_finished[i][1]), m(G.pairs_finished[i][2])>>],
                cards_to_defend |-> ms(G.cards_to_defend),
                is_end_state |-> G.is_end_state,
                loser |-> G.loser,
                error |-> "none"],
         h |-> h2]

(* variant: every private card is reset, the player's own included *)
Restrict_all(W, own) ==
    [W EXCEPT !.h = [y \in DOMAIN W.h |->
                       IF /\ y \in Range(W.g.card_collection)
                          /\ W.h[y].is_private
                       THEN reset(W.h[y]) ELSE W.h[y]]]

(* variant: every card that is not in the player's hand is reset *)
Restrict_seen(W, own) ==
    [W EXCEPT !.h = [y \in DOMAIN W.h |->
                       IF /\ y \in Range(W.g.card_collection)
                          /\ Ident(W.h[y]) \notin own
                       THEN reset(W.h[y]) ELSE W.h[y]]]

(* choose_action: the private cards that are not in self.hand are reset;   *)
(* `card not in self.hand` compares suit and value (Card.__eq__)           *)
Restrict(W, own) ==
    [W EXCEPT !.h = [y \in DOMAIN W.h |->
                       IF /\ y \in Range(W.g.card_collection)
                          /\ W.h[y].is_private
                          /\ Ident(W.h[y]) \notin own
                       THEN reset(W.h[y]) ELSE W.h[y]]]

(* ------------------- DeterminizedMCTS.random_deal ---------------------- *)
HandPublic(W, p) ==
    [W EXCEPT !.h = [y \in DOMAIN W.h |->
                       IF y \in Range(Hand(W, p))
                       THEN [W.h[y] EXCEPT !.is_private = FALSE, !.is_public = TRUE]
                       ELSE W.h[y]]]

(* the worlds a shuffle can leave, card_collection[i..] still to deal from rem *)
RECURSIVE DealFrom(_, _, _)
DealFrom(W, i, rem) ==
    IF i > Len(W.g.card_collection) THEN {W}
    ELSE LET cell == W.g.card_collection[i]
         IN  IF W.h[cell].is_unknown \/ W.h[cell].is_private
             THEN IF rem = {} THEN {Raise(W, "IndexError")}
                  ELSE UNION { DealFrom(
                                 [W EXCEPT !.h[cell] =
                                    [from_suit_value(@, c[1], c[2])
                                       EXCEPT !.is_private = FALSE, !.is_public = TRUE]],
                                 i + 1, rem \ {c}) : c \in rem }
             ELSE DealFrom(W, i + 1, rem)

(* variant: the hand of the player to play is dealt anew like the others *)
random_deal_anew(W) == DealFrom(W, 1, get_non_public_cards(W))

random_deal(W) ==
    LET W1 == HandPublic(W, W.g.player_to_play)
    IN  DealFrom(W1, 1, get_non_public_cards(W1))

(* ----------------------- Player.determinize_hand ----------------------- *)
(* (the heap is made an explicit function, f @@ << >> = f, for the cells   *)
(* that DeterminizeFrom goes on to change one at a time)                   *)
KnownPublic(W, p) ==
    [W EXCEPT !.h = [y \in DOMAIN W.h |->
                       IF y \in Range(Hand(W, p)) /\ ~W.h[y].is_unknown
                       THEN [W.h[y] EXCEPT !.is_private = FALSE, !.is_public = TRUE]
                       ELSE W.h[y]] @@ << >>]

RECURSIVE DeterminizeFrom(_, _, _, _)
DeterminizeFrom(W, p, i, rem) ==
    IF i > Len(Hand(W, p)) THEN {W}
    ELSE LET cell == Hand(W, p)[i]
         IN  IF W.h[cell].is_unknown
             THEN IF rem = {} THEN {Raise(W, "ValueError")}
                  ELSE UNION { DeterminizeFrom(
                                 [W EXCEPT !.h[cell] =
                                    [from_suit_value(@, c[1], c[2]) EXCEPT !.is_public = TRUE]],
                                 p, i + 1, rem \ {c}) : c \in rem }
             ELSE DeterminizeFrom(W, p, i + 1, rem)

determinize_hand(W, p) ==
    LET W1 == KnownPublic(W, p)
    IN  DeterminizeFrom(W1, p, 1, get_non_public_cards(W1))

(* ----------------------------- the players ----------------------------- *)
SearchKinds == {"ISMCTSFPV", "DeterminizedMCTS", "ISMCTS"}

Perspective == game["o"].player_to_play

Drop(slot, h) == [y \in Cells |-> IF y \in RegionCells(slot) THEN NewCard ELSE h[y]]

(* Random.choose_action *)
RandomChoose ==
    /\ pc = "idle"
    /\ Playable(game["o"])
    /\ Len(game["o"].history) < MaxActions
    /\ \E W \in make_cards_known(World("o"), Perspective) :
         \E a \in choose_random_action(allowed_plays(W)) :
           /\ cards' = W.h
           /\ ret' = a
    /\ pc' = "chosen"
    /\ kind' = "Random"
    /\ UNCHANGED <<game, tree>>

(* choose_action of a search player when only one action is allowed *)
ForcedChoose ==
    /\ pc = "idle"
    /\ Playable(game["o"])
    /\ Len(game["o"].history) < MaxPrefix
    /\ \E k \in SearchKinds :
         \E W \in make_cards_known(World("o"), Perspective) :
           /\ Cardinality(allowed_plays(W)) = 1
           /\ cards' = W.h
           /\ ret' = CHOOSE a \in allowed_plays(W) : TRUE
           /\ kind' = k
    /\ pc' = "chosen"
    /\ UNCHANGED <<game, tree>>

(* choose_action of a search player up to the rollouts: the hand is made   *)
(* known, the state copied and the copy restricted to what the player sees *)
BeginSearch ==
    /\ pc = "idle"
    /\ Playable(game["o"])
    /\ Len(game["o"].history) < MaxPrefix
    /\ \E k \in SearchKinds :
         \E W \in make_cards_known(World("o"), Perspective) :
           /\ Cardinality(allowed_plays(W)) > 1
           /\ LET C == Restrict(make_deepcopy(W, "o", "c"), KnownHand(W, Perspective))
              IN  /\ game' = [game EXCEPT !["c"] = C.g]
                  /\ cards' = C.h
           /\ kind' = k
    /\ pc' = "search"
    /\ UNCHANGED <<ret, tree>>

(* the keys of the root's children after expand and select at the root *)
Determinized(W) ==
    { D \in determinize_hand(make_deepcopy(W, "c", "t"), W.g.player_to_play) :
        D.g.error = "none" }

Dealt(W, to) == { D \in random_deal(make_deepcopy(W, "c", to)) : D.g.error = "none" }

RootActions(k, W) ==
    CASE k = "ISMCTSFPV" -> allowed_plays(W)
      [] k = "ISMCTS" ->
           { Strip(a) : a \in allowed_plays(W) }
           \cup UNION { { Strip(a) : a \in allowed_plays(D) } : D \in Determinized(W) }
      [] k = "DeterminizedMCTS" -> UNION { allowed_plays(D) : D \in Dealt(W, "t") }
      [] OTHER -> {}

(* the actions a rollout of search kind k can execute in world W *)
RolloutActions(k, W) ==
    choose_random_action(allowed_plays(W))
    \cup (IF k = "DeterminizedMCTS"
             \/ (k = "ISMCTSFPV" /\ W.g.player_to_play = Perspective)
          THEN allowed_plays(W) ELSE {})

(* DeterminizedMCTS: copied = random_deal(copied_state.make_deepcopy()) *)
Deal ==
    /\ pc = "search"
    /\ kind = "DeterminizedMCTS"
    /\ \E D \in random_deal(make_deepcopy(World("c"), "c", "g")) :
         /\ game' = [game EXCEPT !["g"] = D.g]
         /\ cards' = D.h
    /\ pc' = "rollout"
    /\ UNCHANGED <<kind, ret, tree>>

(* select / simulate at the root: a copy of the root executes a root action *)
RolloutBegin ==
    /\ pc = "search"
    /\ kind \in {"ISMCTSFPV", "ISMCTS"}
    /\ \E a \in RootActions(kind, World("c")) \cup RolloutActions(kind, World("c")) :
         LET W == execute_action(make_deepcopy(World("c"), "c", "g"), a)
         IN  /\ game' = [game EXCEPT !["g"] = W.g]
             /\ cards' = W.h
    /\ pc' = "rollout"
    /\ UNCHANGED <<kind, ret, tree>>

(* the playout loops of select and simulate *)
RolloutStep ==
    /\ pc = "rollout"
    /\ Playable(game["g"])
    /\ Len(game["g"].history) - Len(game["c"].history) < MaxRollout
    /\ \E a \in RolloutActions(kind, World("g")) :
         LET W == execute_action(World("g"), a)
         IN  /\ game' = [game EXCEPT !["g"] = W.g]
             /\ cards' = W.h
    /\ UNCHANGED <<pc, kind, ret, tree>>

(* the rollout's game is dropped *)
RolloutEnd ==
    /\ pc = "rollout"
    /\ game' = [game EXCEPT !["g"] = NoGame]
    /\ cards' = Drop("g", cards)
    /\ pc' = "search"
    /\ UNCHANGED <<kind, ret, tree>>

(* the search player returns the best rated root action *)
Choose ==
    /\ pc = "search"
    /\ \E a \in RootActions(kind, World("c")) : ret' = a
    /\ pc' = "chosen"
    /\ UNCHANGED <<game, cards, kind, tree>>

(* ---------------------------- GameTree.next ---------------------------- *)
Play ==
    /\ pc = "chosen"
    /\ LET W == execute_action(World("o"), ret)
       IN  /\ game' = [game EXCEPT !["o"] = W.g]
           /\ cards' = W.h
    /\ pc' = IF game["c"].made THEN "played" ELSE "idle"
    /\ kind' = "none"
    /\ ret' = << >>
    /\ UNCHANGED tree

(* the copy of the last decision is garbage *)
Forget ==
    /\ pc = "played"
    /\ game' = [game EXCEPT !["c"] = NoGame]
    /\ cards' = Drop("c", cards)
    /\ pc' = "idle"
    /\ UNCHANGED <<kind, ret, tree>>

Next ==
    \/ RandomChoose
    \/ ForcedChoose
    \/ BeginSearch
    \/ Deal
    \/ RolloutBegin
    \/ RolloutStep
    \/ RolloutEnd
    \/ Choose
    \/ Play
    \/ Forget

Spec == Init /\ [][Next]_vars

(* ============================ mcts.py MCTreeFPV ======================== *)
(* The first-person-view player searches its own tree: do_rollouts runs    *)
(* select, expand, simulate and backpropagate over the restricted copy,    *)
(* choose_action reads the answer off the root. nodes holds the           *)
(* MCNodeChoose objects made since do_rollouts began, the root first;      *)
(* current_traversals, rollouts and raised are those of the tree of the    *)
(* player who decides, player_name is kept by every player's tree.         *)
MaxTreePrefix == 5

MaxTreePlayers == 2

MaxTreeUnknown == 0

MaxTreeActions == 7

FirstSearcher == 2

MaxTreeRollouts == 4

(* the child of a node under an action: the action with its MCNodeEnd *)
MCNodeEnd(a) == [action |-> a, N |-> 0, W |-> 0, is_explored |-> FALSE]

(* node.children.keys() and node.children[a]; children is the set of the *)
(* items of the dictionary                                                *)
Keys(node) == { c.action : c \in node.children }

Child(node, a) == CHOOSE c \in node.children : c.action = a

(* the children with the MCNodeEnd under action a replaced by c *)
WithChild(node, a, c) ==
    [node EXCEPT !.children = { IF d.action = a THEN c ELSE d : d \in @ }]

(* a game state with the cards it holds and no others *)
OwnCards(S) ==
    [S EXCEPT !.h = [y \in Cells |->
                       IF y \in Range(S.g.card_collection) THEN S.h[y] ELSE NewCard]
                    @@ << >>]

MCNodeChoose(S) ==
    [game_state |-> OwnCards(S),
     is_end_state |-> S.g.is_end_state,
     is_explored |-> FALSE,
     N |-> 0,
     W |-> 0,
     children |-> {}]

(* hash(tuple(history)), the hash taken to tell histories apart *)
get_id(S) == S.g.history

(* the region the cards of a game state lie in *)
SlotOf(S) == CHOOSE s \in Slots : S.g.card_collection[1] \in RegionCells(s)

(* variant: the loop runs its body once at most *)
random_plays_once(S, name) ==
    IF S.g.error # "none" \/ S.g.is_end_state \/ S.g.player_to_play = name
    THEN {S}
    ELSE IF allowed_plays(S) = {} THEN {Raise(S, allowed_error(S))}
    ELSE { execute_action(S, a) : a \in choose_random_action(allowed_plays(S)) }

(* select: random allowed actions until the game ends or the perspective   *)
(* player is to play                                                       *)
RECURSIVE random_plays(_, _)
random_plays(S, name) ==
    IF S.g.error # "none" \/ S.g.is_end_state \/ S.g.player_to_play = name
    THEN {S}
    ELSE IF allowed_plays(S) = {} THEN {Raise(S, allowed_error(S))}
    ELSE UNION { random_plays(execute_action(S, a), name) :
                   a \in choose_random_action(allowed_plays(S)) }

(* the kids uct_select chooses among: the traversed children. Which of     *)
(* them has the best score is a matter of sqrt and log, left open.         *)
uct_select(node) == { a \in Keys(node) : Child(node, a).N > 0 }

(* the outcomes of select from node k on: the nodes, the path and the leaf *)
(* A path entry is <<"Choose", k>> for node k and <<"End", k, a>> for the  *)
(* MCNodeEnd under action a of node k. The order of children.items() is    *)
(* the order allowed_plays lists the actions in, left open here.           *)
RECURSIVE select(_, _, _, _, _)
select(ns, trav, k, path, name) ==
    LET node == ns[k]
        path1 == Append(path, <<"Choose", k>>)
        found(e) == [nodes |-> ns, path |-> path1, leaf |-> k, error |-> e]
        unexplored == { a \in Keys(node) : ~Child(node, a).is_explored }
    IN  IF ~node.is_explored \/ node.is_end_state THEN {found("none")}
        ELSE IF unexplored = {} /\ node.N = 0 THEN {found("assert self.N > 0")}
        ELSE IF unexplored = {} /\ uct_select(node) = {} THEN {found("assert len(kids) > 0")}
        ELSE UNION {
               LET ns1 == IF unexplored # {}
                          THEN [ns EXCEPT ![k] = WithChild(@, a,
                                     [Child(@, a) EXCEPT !.is_explored = TRUE])]
                          ELSE ns
                   path2 == Append(path1, <<"End", k, a>>)
                   game0 == make_deepcopy(node.game_state, SlotOf(node.game_state), "g")
               IN  UNION {
                     IF G.g.error # "none"
                     THEN {[nodes |-> ns1, path |-> path2, leaf |-> k, error |-> G.g.error]}
                     ELSE IF get_id(G) \in DOMAIN trav
                     THEN select(ns1, trav, trav[get_id(G)], path2, name)
                     ELSE {[nodes |-> Append(ns1, MCNodeChoose(G)),
                            path |-> Append(path2, <<"Choose", Len(ns1) + 1>>),
                            leaf |-> Len(ns1) + 1,
                            error |-> "none"]}
                     : G \in random_plays(execute_action(game0, a), name) }
               : a \in (IF unexplored # {} THEN unexplored ELSE uct_select(node)) }

(* expand: nothing to do for an end state; any other leaf is registered    *)
(* under its id and gets a child for every allowed action                  *)
expand(ns, trav, k) ==
    LET G == ns[k].game_state
        trav1 == [i \in DOMAIN trav \cup {get_id(G)} |->
                    IF i = get_id(G) THEN k ELSE trav[i]]
    IN  IF ns[k].is_end_state
        THEN [nodes |-> ns, current_traversals |-> trav, error |-> "none"]
        ELSE IF allowed_plays(G) = {}
        THEN [nodes |-> ns, current_traversals |-> trav1, error |-> allowed_error(G)]
        ELSE [nodes |-> [ns EXCEPT ![k].children =
                                       { MCNodeEnd(a) : a \in allowed_plays(G) },
                                   ![k].is_explored = TRUE],
              current_traversals |-> trav1,
              error |-> "none"]

(* simulate: the names the random game from the leaf can return as the     *)
(* loser; an end state returns its own loser, any other leaf plays on to   *)
(* an end, which some player loses                                         *)
simulate(node) ==
    IF node.is_end_state THEN {node.game_state.g.loser}
    ELSE Range(node.game_state.g.players)

Visit(n, won) == [n EXCEPT !.N = @ + 1, !.W = @ + won]

(* backpropagate: every node of the path is visited once more, and has won *)
(* unless the perspective player lost                                      *)
RECURSIVE backpropagate(_, _, _)
backpropagate(ns, path, won) ==
    IF path = << >> THEN ns
    ELSE LET e == Head(path)
         IN  backpropagate(IF e[1] = "Choose"
                           THEN [ns EXCEPT ![e[2]] = Visit(@, won)]
                           ELSE [ns EXCEPT ![e[2]] =
                                     WithChild(@, e[3], Visit(Child(@, e[3]), won))],
                           Tail(path), won)

(* choose_action: a is rated above b *)
Above(a, b, scoring) ==
    IF scoring = "Visit count" THEN a.N > b.N ELSE a.W * b.N > b.W * a.N

(* the actions choose_action can return at the node: the traversed         *)
(* children no other is rated above                                        *)
best_actions(node, scoring) ==
    { a \in uct_select(node) :
        \A b \in uct_select(node) : ~Above(Child(node, b), Child(node, a), scoring) }

(* the cards of a game state that are Unknown *)
UnknownCards(S) == { y \in Range(S.g.card_collection) : S.h[y].is_unknown }

(* a tree has been bound to its player: a search has been made *)
SearchedBefore == \E q \in DOMAIN player_name : player_name[q] # None

(* the decisions followed: MaxTreePrefix actions up to the first search,   *)
(* MaxTreeActions actions in the games that have been searched in          *)
InTreePrefix ==
    \/ Len(game["o"].history) < MaxTreePrefix
    \/ SearchedBefore /\ Len(game["o"].history) < MaxTreeActions

(* ISMCTSFPV.choose_action up to the rollouts, and do_rollouts up to its   *)
(* loop: the root node is made and registered, the tree is bound to the    *)
(* name of the player who decides. The searches followed are those of the  *)
(* players from seat FirstSearcher on, over copies with at most            *)
(* MaxTreeUnknown Unknown cards.                                           *)
DoRollouts ==
    /\ pc = "idle"
    /\ Playable(game["o"])
    /\ InTreePrefix
    /\ Perspective >= FirstSearcher
    /\ \E W \in make_cards_known(World("o"), Perspective) :
         /\ Cardinality(allowed_plays(W)) > 1
         /\ LET C == Restrict(make_deepcopy(W, "o", "c"), KnownHand(W, Perspective))
                p == C.g.player_to_play
                bound == IF player_name[p] = None THEN p ELSE player_name[p]
            IN  /\ Cardinality(UnknownCards(C)) <= MaxTreeUnknown
                /\ game' = [game EXCEPT !["c"] = C.g]
                /\ cards' = C.h
                /\ nodes' = <<MCNodeChoose(C)>>
                /\ current_traversals' = (get_id(C) :> 1)
                /\ player_name' = [player_name EXCEPT ![p] = bound]
                /\ raised' = IF bound = p THEN "none"
                             ELSE "assert self.player_name == game_state.player_to_play.name"
    /\ rollouts' = 0
    /\ kind' = "ISMCTSFPV"
    /\ pc' = "tree"
    /\ UNCHANGED ret

(* one pass of the loop of do_rollouts *)
TreeRollout ==
    /\ pc = "tree"
    /\ raised = "none"
    /\ rollouts < MaxTreeRollouts
    /\ LET name == player_name[game["c"].player_to_play]
       IN  \E s \in select(nodes, current_traversals, 1, << >>, name) :
             IF s.error # "none"
             THEN /\ raised' = s.error
                  /\ UNCHANGED <<nodes, current_traversals, rollouts>>
             ELSE LET e == expand(s.nodes, current_traversals, s.leaf)
                  IN  \E loser \in simulate(e.nodes[s.leaf]) :
                        /\ nodes' = backpropagate(e.nodes, s.path,
                                                  IF loser # name THEN 1 ELSE 0)
                        /\ current_traversals' = e.current_traversals
                        /\ raised' = e.error
                        /\ rollouts' = rollouts + 1
    /\ UNCHANGED <<game, cards, pc, kind, ret, player_name>>

(* MCTreeFPV.choose_action after the loop: the best rated child of the     *)
(* root is returned and the traversals are cleared                         *)
TreeChoose ==
    /\ pc = "tree"
    /\ raised = "none"
    /\ rollouts = MaxTreeRollouts
    /\ LET id == get_id(World("c"))
       IN  IF id \notin DOMAIN current_traversals
           THEN /\ raised' = "assert game_id in self.current_traversals"
                /\ UNCHANGED <<ret, pc, nodes, current_traversals>>
           ELSE \E scoring \in {"Winning percentage", "Visit count"} :
                  LET best == best_actions(nodes[current_traversals[id]], scoring)
                  IN  IF best = {}
                      THEN /\ raised' = "assert action_to_play is not None"
                           /\ UNCHANGED <<ret, pc, nodes, current_traversals>>
                      ELSE /\ \E a \in best : ret' = a
                           /\ pc' = "chosen"
                           /\ nodes' = << >>
                           /\ current_traversals' = << >>
                           /\ raised' = "none"
    /\ UNCHANGED <<game, cards, kind, player_name, rollouts>>

(* the games the tree is followed in; the suits are alike, so that the     *)
(* games with the other trump suit are these with the suits renamed        *)
InitFPV ==
    /\ Init
    /\ Len(game["o"].players) <= MaxTreePlayers
    /\ cards[NumCards].suit = 0

(* choose_action of a player who does not search *)
OtherChoose ==
    /\ InTreePrefix
    /\ RandomChoose

NextFPV ==
    \/ OtherChoose
    \/ DoRollouts
    \/ TreeRollout
    \/ TreeChoose
    \/ Play
    \/ Forget

SpecFPV == InitFPV /\ [][NextFPV]_vars

(* ====================== mcts.py simulate: playouts ===================== *)
(* The loop of simulate (and the opponent loop of select) asks the game    *)
(* for allowed_plays, takes choose_random_action of them and executes it,  *)
(* until is_end_state.  history is written by execute_action and read by   *)
(* no rule of the game (main.py:291-396), so the playout state leaves it   *)
(* out: a position that is met twice is one state.  When allowed_plays     *)
(* raises, no step exists.  The playouts start from determinized deals of  *)
(* three players: bottom card of trump suit 0, the other cards dealt in    *)
(* sorted order.                                                           *)
PlayoutPlayers == 3

InitPlayout ==
    \E bottom \in { c \in all_cards : c[2] # Ace /\ c[1] = 0 } :
      \E W \in random_deal(Construct(PlayoutPlayers, MainAttacker, bottom)) :
        /\ \A i \in 1 .. NumCards - 1 :
             Ident(W.h[i]) = SortedSeq(all_cards \ {bottom})[i]
        /\ game = [s \in Slots |-> IF s = "o" THEN W.g ELSE NoGame]
        /\ cards = W.h
        /\ pc = "idle"
        /\ kind = "none"
        /\ ret = << >>
        /\ nodes = << >>
        /\ current_traversals = << >>
        /\ player_name = [q \in 1 .. MaxPlayers |-> None]
        /\ rollouts = 0
        /\ raised = "none"

SimulateStep ==
    /\ pc = "idle"
    /\ Playable(game["o"])
    /\ \E a \in choose_random_action(allowed_plays(World("o"))) :
         LET W == execute_action(World("o"), a)
         IN  /\ game' = [game EXCEPT !["o"] = [W.g EXCEPT !.history = << >>]]
             /\ cards' = W.h
    /\ UNCHANGED <<pc, kind, ret, tree>>

SpecPlayout == InitPlayout /\ [][SimulateStep]_vars

(* ================== GameTree.__init__ step by step ===================== *)
(* The constructor with computer_shuffle: it makes the deck and samples    *)
(* the bottom card from all identities, calls itself again when the sample *)
(* is an ace, and otherwise sets the trump suit, deals and opens the first *)
(* trick.  pc is "new" at the call and "sampled" at the ace test.          *)
InitNew ==
    \E n \in MinPlayers .. MaxPlayers :
      /\ game = [s \in Slots |->
                   IF s = "o"
                   THEN [NoGame EXCEPT !.players = [i \in 1 .. n |-> i],
                                       !.hand = [i \in 1 .. n |-> << >>]]
                   ELSE NoGame]
      /\ cards = [x \in Cells |-> NewCard]
      /\ pc = "new"
      /\ kind = "none"
      /\ ret = << >>
      /\ nodes = << >>
      /\ current_traversals = << >>
      /\ player_name = [q \in 1 .. MaxPlayers |-> None]
      /\ rollouts = 0
      /\ raised = "none"

SampleBottom ==
    /\ pc = "new"
    /\ \E bottom \in get_unknown_cards([g |-> NoGame, h |-> cards]) :
         /\ game' = [game EXCEPT !["o"].deck = [i \in 1 .. NumCards |-> i],
                                 !["o"].card_collection = [i \in 1 .. NumCards |-> i],
                                 !["o"].history = << >>]
         /\ cards' = [x \in Cells |->
                        IF x = NumCards
                        THEN [from_suit_value(NewCard, bottom[1], bottom[2])
                                EXCEPT !.is_public = TRUE]
                        ELSE NewCard]
    /\ pc' = "sampled"
    /\ UNCHANGED <<kind, ret, tree>>

(* variant: an ace on the bottom is kept *)
Redeal_kept ==
    /\ pc = "sampled"
    /\ cards[NumCards].value = Ace
    /\ LET W == Construct(Len(game["o"].players), MainAttacker, Ident(cards[NumCards]))
       IN  /\ game' = [game EXCEPT !["o"] = W.g]
           /\ cards' = W.h
    /\ pc' = "idle"
    /\ UNCHANGED <<kind, ret, tree>>

(* the deck, the collection and the history of the attempt are replaced by *)
(* those of the next call; the players and their hands are the same ones   *)
Redeal ==
    /\ pc = "sampled"
    /\ cards[NumCards].value = Ace
    /\ game' = [game EXCEPT !["o"].deck = << >>,
                            !["o"].card_collection = << >>]
    /\ cards' = [x \in Cells |-> NewCard]
    /\ pc' = "new"
    /\ UNCHANGED <<kind, ret, tree>>

FirstTrick ==
    /\ pc = "sampled"
    /\ cards[NumCards].value # Ace
    /\ LET trump == cards[NumCards].suit
           h0 == [x \in Cells |->
                    IF x <= NumCards THEN [cards[x] EXCEPT !.trump_suit = trump]
                    ELSE cards[x]]
           g0 == [game["o"] EXCEPT !.made = TRUE]
           W == new_trick(DealHands([g |-> g0, h |-> h0], g0.players), MainAttacker)
       IN  /\ game' = [game EXCEPT !["o"] = W.g]
           /\ cards' = W.h
    /\ pc' = "idle"
    /\ UNCHANGED <<kind, ret, tree>>

NextNew ==
    \/ SampleBottom
    \/ Redeal
    \/ FirstTrick
    \/ RandomChoose
    \/ Play

SpecNew == InitNew /\ [][NextNew]_vars

(* ===================== Player.can_throw on its own ===================== *)
(* can_throw is a function of the hand, the fallback identities and the    *)
(* proposed throws.  The hands are drawn from all hands of up to           *)
(* MaxThrowHand cards, each Unknown or bound to an identity of its own,    *)
(* the fallback identities from all sets of identities; every set of       *)
(* throws is asked.                                                        *)
MaxThrowHand == 3

InitThrow ==
    \E k \in 0 .. MaxThrowHand :
      \E ids \in [1 .. k -> all_cards \cup {<<None, None>>}] :
        \E fallback_identities \in SUBSET all_cards :
          /\ \A i, j \in 1 .. k : (i # j /\ ids[i] = ids[j]) => ids[i] = <<None, None>>
          /\ game = [s \in Slots |->
                       IF s = "o"
                       THEN [NoGame EXCEPT !.players = <<1>>,
                                           !.hand = <<[i \in 1 .. k |-> i]>>,
                                           !.card_collection = [i \in 1 .. NumCards |-> i]]
                       ELSE NoGame]
          /\ cards = [x \in Cells |->
                        IF x \in 1 .. k /\ ids[x] # <<None, None>>
                        THEN [from_suit_value(NewCard, ids[x][1], ids[x][2])
                                EXCEPT !.is_private = TRUE]
                        ELSE NewCard]
          /\ pc = "hand"
          /\ kind = "none"
          /\ ret = [fallback_identities |-> fallback_identities,
                    cards |-> << >>, can_throw |-> TRUE]
          /\ nodes = << >>
          /\ current_traversals = << >>
          /\ player_name = [q \in 1 .. MaxPlayers |-> None]
          /\ rollouts = 0
          /\ raised = "none"

AskThrow ==
    /\ pc = "hand"
    /\ \E S \in SUBSET all_cards :
         ret' = [ret EXCEPT !.cards = SortedSeq(S),
                            !.can_throw = can_throw(World("o"), 1,
                                                    ret.fallback_identities,
                                                    SortedSeq(S))]
    /\ pc' = "asked"
    /\ UNCHANGED <<game, cards, kind, tree>>

SpecThrow == InitThrow /\ [][AskThrow]_vars

(* ====================== mcts.py MCTree and ISMCTree ==================== *)
(* The trees of DeterminizedMCTS and ISMCTS.  nodes holds the MCNode       *)
(* objects made since do_rollouts began, the root first.  A node keeps the *)
(* index of its parent (0 for None), the key it has in the children of its *)
(* parent, and its children in the order of the dictionary.  Only the root *)
(* holds a game state, the game "c"; get_game_state builds the state of    *)
(* any other node from the root down.  The first search of a game is       *)
(* followed, with one deal for DeterminizedMCTS.                           *)
MaxMCTPrefix == 6

MinMCTPrefix == 5

MaxMCTRollouts == 4

MaxMCTUnknown == 2

RECURSIVE Perms(_)
Perms(S) ==
    IF S = {} THEN {<< >>}
    ELSE UNION { { <<x>> \o s : s \in Perms(S \ {x}) } : x \in S }

RECURSIVE Pow(_, _)
Pow(b, e) == IF e = 0 THEN 1 ELSE b * Pow(b, e - 1)

(* the place of a combination among those of its size: the tuple of the   *)
(* positions its members have in the iterated set, read as a number        *)
RECURSIVE Combination(_, _)
Combination(placed, K) ==
    IF placed = {} THEN 0
    ELSE LET i == MinOf(placed)
         IN  i * Pow(K, Cardinality(placed) - 1) + Combination(placed \ {i}, K)

(* the identities the actions A name *)
IdentitiesOf(A) ==
    UNION { IF a[1] = "ThrowCards" THEN Range(a[2])
            ELSE IF a[1] \in {"PassAttack", "Take"} THEN {} ELSE {a[2]} : a \in A }

(* where allowed_plays appends action a when a set of identities is        *)
(* iterated in the order pi: PassAttack before the attacks; the options of *)
(* a hand card after those of the cards before it, its defends before its  *)
(* reflects, Reflect before ReflectTrump, Take last; no throw first, then  *)
(* the combinations by their size, in the order of itertools.combinations  *)
ListRank(W, pi, a) ==
    LET p == W.g.player_to_play
        hand == Hand(W, p)
        K == Len(pi) + 1
        pos(c) == CHOOSE i \in 1 .. Len(pi) : pi[i] = c
        first == MinOf({ i \in 1 .. Len(hand) :
                           Strip(a) \in CardDefend(W, p, W.h[hand[i]])
                                        \cup CardReflect(W, p, W.h[hand[i]]) })
        placed == { pos(c) : c \in Range(a[2]) }
    IN  CASE a[1] = "PassAttack" -> 0
          [] a[1] = "Attack" -> pos(a[2])
          [] a[1] = "ThrowCards" -> Len(a[2]) * Pow(K, K) + Combination(placed, K)
          [] a[1] = "Take" -> 4 * K * (Len(hand) + 1)
          [] OTHER -> ((2 * first + (IF a[1] = "Defend" THEN 0 ELSE 1)) * K
                       + pos(a[2])) * 2 + (IF a[1] = "ReflectTrump" THEN 1 ELSE 0)

(* the actions A as the list that the order pi of the identities gives *)
Listed(W, A, pi) ==
    [i \in 1 .. Cardinality(A) |->
       CHOOSE a \in A :
         Cardinality({ b \in A : ListRank(W, pi, b) < ListRank(W, pi, a) }) = i - 1]

ListsOf(W, A) == { Listed(W, A, pi) : pi \in Perms(IdentitiesOf(A)) }

(* the lists allowed_plays can return: the order in which a set of         *)
(* identities is iterated is left open                                     *)
allowed_list(W) == ListsOf(W, allowed_plays(W))

(* is_end_state of a node: None until the game state has been built *)
Known(b) == IF b THEN "True" ELSE "False"

MCNode(parent, a, end) ==
    [parent |-> parent, action |-> a, is_end_state |-> end,
     is_explored |-> FALSE, N |-> 0, W |-> 0, children |-> << >>]

(* the action of the edge executed on a copy of the state P of the parent *)
ChildState(P, from, a) ==
    IF P.g.error # "none" THEN P ELSE execute_action(make_deepcopy(P, from, "t"), a)

(* MCNode.get_game_state: the state of the root R for the root, the state  *)
(* of the parent copied and the action of the edge executed for a child    *)
RECURSIVE get_game_state(_, _, _)
get_game_state(ns, R, k) ==
    IF ns[k].parent = 0 THEN R
    ELSE ChildState(get_game_state(ns, R, ns[k].parent),
                    IF ns[ns[k].parent].parent = 0 THEN "c" ELSE "t",
                    ns[k].action)

(* the kids uct_select chooses among: the traversed children. Which of     *)
(* them has the best score is a matter of sqrt and log, left open.         *)
MCNode_uct_select(ns, k) == { c \in Range(ns[k].children) : ns[c].N > 0 }

ISMCNode_uct_select(ns, k, allowed) ==
    { c \in Range(ns[k].children) : ns[c].N > 0 /\ ns[c].action \in Range(allowed) }

(* variant: the last child that is not explored is taken *)
FirstUnexplored_last(ns, k) ==
    LET cs == ns[k].children
        U == { i \in 1 .. Len(cs) : ~ns[cs[i]].is_explored }
    IN  IF U = {} THEN 0 ELSE cs[CHOOSE i \in U : \A j \in U : j <= i]

(* the first child, in the order of the dictionary, that is not explored;  *)
(* 0 when the loop ends without a break                                    *)
FirstUnexplored(ns, k) ==
    LET cs == ns[k].children
        U == { i \in 1 .. Len(cs) : ~ns[cs[i]].is_explored }
    IN  IF U = {} THEN 0 ELSE cs[MinOf(U)]

(* select, both trees: an explored node learns from its game state G       *)
(* whether it is an end state; the node is returned when it is not         *)
(* explored or an end state                                                *)
AtLeaf(ns, k, G) ==
    IF ~ns[k].is_explored THEN [nodes |-> ns, leaf |-> TRUE]
    ELSE IF ns[k].is_end_state # "None"
    THEN [nodes |-> ns, leaf |-> ns[k].is_end_state = "True"]
    ELSE [nodes |-> [ns EXCEPT ![k].is_end_state = Known(G.g.is_end_state)],
          leaf |-> G.g.is_end_state]

(* MCTree.select from node k on: the nodes and the leaf *)
RECURSIVE MCTree_select(_, _, _)
RECURSIVE MCTree_descend(_, _, _, _)
MCTree_descend(ns, R, k, u) ==
    IF u # 0 THEN MCTree_select(ns, R, u)
    ELSE IF ns[k].N = 0
    THEN {[nodes |-> ns, leaf |-> k, error |-> "assert self.N > 0"]}
    ELSE IF MCNode_uct_select(ns, k) = {}
    THEN {[nodes |-> ns, leaf |-> k, error |-> "assert len(kids) > 0"]}
    ELSE UNION { MCTree_select(ns, R, c) : c \in MCNode_uct_select(ns, k) }

MCTree_at(at, R, k) ==
    IF at.leaf THEN {[nodes |-> at.nodes, leaf |-> k, error |-> "none"]}
    ELSE MCTree_descend(at.nodes, R, k, FirstUnexplored(at.nodes, k))

MCTree_select(ns, R, k) == MCTree_at(AtLeaf(ns, k, get_game_state(ns, R, k)), R, k)

(* ISMCTree.select, the loop over allowed from entry i on: a child is made *)
(* for an action that has none, the first child not explored is taken      *)
RECURSIVE Unforeseen(_, _, _, _)
Unforeseen(ns, k, allowed, i) ==
    IF i > Len(allowed) THEN [nodes |-> ns, node |-> 0]
    ELSE LET have == { c \in Range(ns[k].children) : ns[c].action = allowed[i] }
         IN  IF have = {}
             THEN [nodes |-> [Append(ns, MCNode(k, allowed[i], "None"))
                                EXCEPT ![k].children = Append(@, Len(ns) + 1)],
                   node |-> Len(ns) + 1]
             ELSE IF \E c \in have : ~ns[c].is_explored
             THEN [nodes |-> ns, node |-> CHOOSE c \in have : TRUE]
             ELSE Unforeseen(ns, k, allowed, i + 1)

(* the state G of node k copied and the hand of its player determinized *)
DeterminizedNode(ns, k, G) ==
    determinize_hand(make_deepcopy(G, IF ns[k].parent = 0 THEN "c" ELSE "t", "t"),
                     G.g.player_to_play)

(* ISMCTree.select from node k on: the nodes and the leaf *)
RECURSIVE ISMCTree_select(_, _, _)
RECURSIVE ISMCTree_descend(_, _, _, _)
ISMCTree_descend(w, R, k, allowed) ==
    IF w.node # 0 THEN ISMCTree_select(w.nodes, R, w.node)
    ELSE IF w.nodes[k].N = 0
    THEN {[nodes |-> w.nodes, leaf |-> k, error |-> "assert self.N > 0"]}
    ELSE IF ISMCNode_uct_select(w.nodes, k, allowed) = {}
    THEN {[nodes |-> w.nodes, leaf |-> k, error |-> "assert len(kids) > 0"]}
    ELSE UNION { ISMCTree_select(w.nodes, R, c) :
                 c \in ISMCNode_uct_select(w.nodes, k, allowed) }

ISMCTree_allowed(ns, R, k, allowed) ==
    ISMCTree_descend(Unforeseen(ns, k, allowed, 1), R, k, allowed)

ISMCTree_determinized(ns, R, k, D, e) ==
    IF D.g.error # "none" THEN {[nodes |-> ns, leaf |-> k, error |-> D.g.error]}
    ELSE IF e # "none" THEN {[nodes |-> ns, leaf |-> k, error |-> e]}
    ELSE UNION { ISMCTree_allowed(ns, R, k, [i \in 1 .. Len(lst) |-> Strip(lst[i])]) :
                 lst \in allowed_list(D) }

ISMCTree_at(at, R, k, G) ==
    IF at.leaf THEN {[nodes |-> at.nodes, leaf |-> k, error |-> "none"]}
    ELSE UNION { ISMCTree_determinized(at.nodes, R, k, D, allowed_error(D)) :
                 D \in DeterminizedNode(at.nodes, k, G) }

ISMCTree_leaf(ns, R, k, G) == ISMCTree_at(AtLeaf(ns, k, G), R, k, G)

ISMCTree_select(ns, R, k) == ISMCTree_leaf(ns, R, k, get_game_state(ns, R, k))

(* the node k with a child for every action of lst, explored *)
WithChildren(ns, k, lst) ==
    [ns \o [i \in 1 .. Len(lst) |-> MCNode(k, lst[i], "None")]
       EXCEPT ![k].children = [i \in 1 .. Len(lst) |-> Len(ns) + i],
              ![k].is_explored = TRUE]

(* the keys of the children: ISMCTree leaves the weights out *)
KeysOf(lst, kd) == [i \in 1 .. Len(lst) |-> IF kd = "ISMCTS" THEN Strip(lst[i]) ELSE lst[i]]

(* expand of a leaf with game state G, where allowed_plays raises e *)
Expanded(ns, k, kd, G, e) ==
    IF G.g.error # "none" THEN {[nodes |-> ns, error |-> G.g.error]}
    ELSE IF G.g.is_end_state
    THEN {[nodes |-> [ns EXCEPT ![k].is_end_state = "True"], error |-> "none"]}
    ELSE IF e # "none"
    THEN {[nodes |-> [ns EXCEPT ![k].is_end_state = "False"], error |-> e]}
    ELSE { [nodes |-> WithChildren([ns EXCEPT ![k].is_end_state = "False"],
                                   k, KeysOf(lst, kd)),
            error |-> "none"] : lst \in allowed_list(G) }

ExpandedIn(ns, k, kd, G) == Expanded(ns, k, kd, G, allowed_error(G))

(* expand, both trees: nothing to do for an end state; any other leaf gets *)
(* a child for every allowed action (ISMCTree: without its weight), in the *)
(* order of the list, and is explored                                      *)
MCTree_expand(ns, R, k, kd) == ExpandedIn(ns, k, kd, get_game_state(ns, R, k))

(* the names a random game from G can return as the loser: an end state    *)
(* returns its own loser, any other state plays on to an end, which some   *)
(* player loses                                                            *)
Losers(G) == IF G.g.is_end_state THEN {G.g.loser} ELSE Range(G.g.players)

(* simulate, both trees *)
MCTree_simulate(ns, R, k) == Losers(get_game_state(ns, R, k))

(* variant: a node has won when the player to play in its own state did    *)
(* not lose, the root included                                             *)
RECURSIVE MCTree_backpropagate_own(_, _, _, _)
MCTree_backpropagate_own(ns, R, k, name_of_loser) ==
    IF k = 0 THEN ns
    ELSE LET won == IF get_game_state(ns, R, k).g.player_to_play # name_of_loser
                    THEN 1 ELSE 0
         IN  MCTree_backpropagate_own([ns EXCEPT ![k].N = @ + 1, ![k].W = @ + won],
                                      R, ns[k].parent, name_of_loser)

(* backpropagate, both trees: from the leaf up every node is visited once  *)
(* more; a node with a parent has won when the player to play in the state *)
(* of the parent is not the loser                                          *)
RECURSIVE MCTree_backpropagate(_, _, _, _)
MCTree_backpropagate(ns, R, k, name_of_loser) ==
    IF k = 0 THEN ns
    ELSE LET p == ns[k].parent
             won == IF p # 0 /\ get_game_state(ns, R, p).g.player_to_play # name_of_loser
                    THEN 1 ELSE 0
         IN  MCTree_backpropagate([ns EXCEPT ![k].N = @ + 1, ![k].W = @ + won],
                                  R, p, name_of_loser)

(* the decisions followed: at most MaxMCTPrefix actions of a game *)
InMCTPrefix == Len(game["o"].history) < MaxMCTPrefix

(* DeterminizedMCTS.choose_action and ISMCTS.choose_action up to the loop  *)
(* of do_rollouts: the hand is made known, the state copied, the copy      *)
(* restricted to what the player sees and, by DeterminizedMCTS, dealt;     *)
(* do_rollouts makes the root.  The searches followed are those of the     *)
(* players from seat FirstSearcher on, after at least MinMCTPrefix         *)
(* actions, over copies with at most MaxMCTUnknown Unknown cards.          *)
MCTBegin ==
    /\ pc = "idle"
    /\ Playable(game["o"])
    /\ InMCTPrefix
    /\ Len(game["o"].history) >= MinMCTPrefix
    /\ rollouts = 0
    /\ Perspective >= FirstSearcher
    /\ \E kd \in {"DeterminizedMCTS", "ISMCTS"} :
         \E W \in make_cards_known(World("o"), Perspective) :
           /\ Cardinality(allowed_plays(W)) > 1
           /\ LET C == Restrict(make_deepcopy(W, "o", "c"), KnownHand(W, Perspective))
              IN  /\ Cardinality(UnknownCards(C)) <= MaxMCTUnknown
                  /\ \E D \in (IF kd = "DeterminizedMCTS" THEN random_deal(C) ELSE {C}) :
                       /\ D.g.error = "none"
                       /\ game' = [game EXCEPT !["c"] = D.g]
                       /\ cards' = D.h
           /\ kind' = kd
    /\ nodes' = <<MCNode(0, << >>, "False")>>
    /\ rollouts' = 0
    /\ raised' = "none"
    /\ ret' = <<"rollout", 0, None>>
    /\ pc' = "mct"
    /\ UNCHANGED <<current_traversals, player_name>>

(* one pass of the loop of do_rollouts; ret keeps leaf_node and            *)
(* name_of_loser of the pass                                               *)
MCTRollout ==
    /\ pc = "mct"
    /\ raised = "none"
    /\ rollouts < MaxMCTRollouts
    /\ LET R == World("c")
       IN  \E s \in (IF kind = "ISMCTS" THEN ISMCTree_select(nodes, R, 1)
                     ELSE MCTree_select(nodes, R, 1)) :
             IF s.error # "none"
             THEN /\ raised' = s.error
                  /\ UNCHANGED <<nodes, rollouts, ret>>
             ELSE \E e \in MCTree_expand(s.nodes, R, s.leaf, kind) :
                    IF e.error # "none"
                    THEN /\ raised' = e.error
                         /\ UNCHANGED <<nodes, rollouts, ret>>
                    ELSE \E name_of_loser \in MCTree_simulate(e.nodes, R, s.leaf) :
                           /\ nodes' = MCTree_backpropagate(e.nodes, R, s.leaf, name_of_loser)
                           /\ ret' = <<"rollout", s.leaf, name_of_loser>>
                           /\ rollouts' = rollouts + 1
                           /\ raised' = "none"
    /\ UNCHANGED <<game, cards, pc, kind, current_traversals, player_name>>

(* choose_action: a is rated above b *)
Rated(ns, a, b, scoring) ==
    IF scoring = "Visit count" THEN ns[a].N > ns[b].N
    ELSE ns[a].W * ns[b].N > ns[b].W * ns[a].N

(* choose_action after do_rollouts: the first of the best rated children   *)
(* of the root is returned; 'Winning percentage' divides W by N            *)
MCTChoose ==
    /\ pc = "mct"
    /\ raised = "none"
    /\ rollouts = MaxMCTRollouts
    /\ LET cs == nodes[1].children
       IN  \E scoring \in {"Winning percentage", "Visit count"} :
             IF scoring = "Winning percentage" /\ \E i \in 1 .. Len(cs) : nodes[cs[i]].N = 0
             THEN /\ raised' = "ZeroDivisionError"
                  /\ UNCHANGED <<ret, pc, nodes>>
             ELSE LET best == MinOf({ i \in 1 .. Len(cs) :
                                        \A j \in 1 .. Len(cs) :
                                          ~Rated(nodes, cs[j], cs[i], scoring) })
                  IN  /\ ret' = nodes[cs[best]].action
                      /\ pc' = "chosen"
                      /\ nodes' = << >>
                      /\ raised' = "none"
    /\ UNCHANGED <<game, cards, kind, current_traversals, player_name, rollouts>>

(* choose_action of a player who does not search *)
MCTOtherChoose ==
    /\ InMCTPrefix
    /\ RandomChoose

NextMCT ==
    \/ MCTOtherChoose
    \/ MCTBegin
    \/ MCTRollout
    \/ MCTChoose
    \/ Play
    \/ Forget

SpecMCT == InitFPV /\ [][NextMCT]_vars

(* ============================== claims ================================= *)
Live == { x \in Slots : game[x].made }

ToPlay == { x \in Slots : Playable(game[x]) }

Cell(x, i) == game[x].card_collection[i]

BottomSuit(x) == cards[Cell(x, NumCards)].suit

HandHasUnknown(x, p) == \E y \in Range(game[x].hand[p]) : cards[y].is_unknown

(* C1: in every non-terminal state of the real game and of every copy      *)
(* (restricted copies with Unknown hands included), execute_action accepts *)
(* every action that allowed_plays returns in that state: it raises        *)
(* neither 'Card not possible to discard' nor a failed assertion.          *)
C1_EnumerateThenExecute ==
    \A x \in ToPlay :
      \A a \in allowed_plays(World(x)) :
        execute_action(World(x), a).g.error = "none"

(* a rollout has executed actions in a restricted copy and a player with   *)
(* Unknown cards is to play there                                          *)
C1_Witness ==
    /\ pc = "rollout"
    /\ kind = "ISMCTSFPV"
    /\ Playable(game["g"])
    /\ Len(game["g"].history) >= Len(game["c"].history) + 2
    /\ HandHasUnknown("g", game["g"].player_to_play)
    /\ allowed_plays(World("g")) # {}

(* C2: in every non-terminal state allowed_plays returns at least one      *)
(* action; at a trick start (Attack, no finished pair) the attacker's and  *)
(* the defender's hands are non-empty and an Attack is offered.            *)
C2_SomeActionAllowed ==
    \A x \in ToPlay :
      /\ allowed_plays(World(x)) # {}
      /\ (game[x].current_action = "Attack" /\ game[x].pairs_finished = << >>)
           => /\ game[x].hand[At(game[x].attackers, game[x].current_attacker)] # << >>
              /\ game[x].hand[game[x].defender] # << >>
              /\ \E a \in allowed_plays(World(x)) : a[1] = "Attack"

(* a later trick opens after the deck ran out *)
C2_Witness ==
    /\ Playable(game["o"])
    /\ game["o"].history # << >>
    /\ game["o"].current_action = "Attack"
    /\ game["o"].pairs_finished = << >>
    /\ game["o"].deck = << >>
    /\ Len(game["o"].attackers) + 1 < Len(game["o"].players)

(* C8: a terminal state has a loser and an empty deck, and either every    *)
(* hand is empty and the loser is the defender of the last trick, or       *)
(* exactly one player holds cards and that player is the loser.            *)
Holders(G) == { q \in DOMAIN G.hand : G.hand[q] # << >> }

C8_Terminal ==
    \A x \in Live :
      game[x].is_end_state =>
        /\ game[x].loser # None
        /\ game[x].deck = << >>
        /\ \/ Holders(game[x]) = {} /\ game[x].loser = game[x].defender
           \/ Holders(game[x]) = {game[x].loser}

(* the game ended with the last card defended and every hand empty *)
C8_Witness ==
    /\ game["o"].is_end_state
    /\ Holders(game["o"]) = {}

(* ---------------------- copies and the original ------------------------ *)
(* everything an observer of game x can read: its fields and its cards *)
View(x) ==
    <<game[x], [i \in 1 .. Len(game[x].card_collection) |-> cards[Cell(x, i)]]>>

Same(x) == View(x)' = View(x)

(* "g" is made as a copy of "c" *)
PreOf(x) == IF game[x].made THEN game[x] ELSE game["c"]

ExecutedOnCopy ==
    /\ pc' = "rollout"
    /\ game'["g"].made
    /\ Len(game'["g"].history) = Len(PreOf("g").history) + 1

ExecutedOnOriginal ==
    /\ pc = "chosen"
    /\ Len(game'["o"].history) = Len(game["o"].history) + 1

(* C3: execute_action on a copy leaves the game it was copied from (and    *)
(* that game's own original) unchanged in every field and every card, and  *)
(* execute_action on the original leaves its copy unchanged.               *)
C3_CopyIndependent ==
    [][ /\ ExecutedOnCopy => (Same("o") /\ Same("c"))
        /\ (ExecutedOnOriginal /\ game["c"].made) => Same("c") ]_vars

(* a rollout has bound or moved cards of the copy "g" that "c" still holds *)
C3_Witness ==
    /\ pc = "rollout"
    /\ Len(game["g"].history) >= Len(game["c"].history) + 2
    /\ \E i \in 1 .. NumCards : cards[Cell("g", i)] # cards[Cell("c", i)]
    /\ game["g"].hand # game["c"].hand

(* the structure of a world: cards by suit, value and visibility *)
CardView(cd) == <<cd.suit, cd.value, cd.is_public, cd.is_private, cd.is_unknown>>

Vals(W, s) == [i \in 1 .. Len(s) |-> CardView(W.h[s[i]])]

Struct(W) ==
    [history |-> W.g.history,
     current_action |-> W.g.current_action,
     is_end_state |-> W.g.is_end_state,
     loser |-> W.g.loser,
     player_to_play |-> W.g.player_to_play,
     attackers |-> W.g.attackers,
     defender |-> W.g.defender,
     draw_order |-> W.g.draw_order,
     current_attacker |-> W.g.current_attacker,
     reflected_trumps |-> W.g.reflected_trumps,
     deck |-> Vals(W, W.g.deck),
     hand |-> [q \in DOMAIN W.g.hand |-> Vals(W, W.g.hand[q])],
     cards_to_defend |-> Vals(W, W.g.cards_to_defend),
     pairs_finished |-> Vals(W, Flatten(W.g.pairs_finished)),
     error |-> W.g.error]

(* the game the last step made or changed; every state of every game is  *)
(* the newest one in the step that produces it                            *)
Newest == IF pc = "rollout" THEN "g" ELSE IF pc = "search" THEN "c" ELSE "o"

(* C4: for every non-terminal state and every action allowed in it,        *)
(* executing the action on the state and on its make_deepcopy gives        *)
(* structurally equal states.                                              *)
C4_CopyThenExecute ==
    \A x \in ToPlay \cap {Newest} :
      \A a \in allowed_plays(World(x)) :
        Struct(execute_action(World(x), a))
          = Struct(execute_action(make_deepcopy(World(x), x, "t"), a))

(* a state with a reflected trump on record, a card on the table and a    *)
(* card to beat it with among the allowed actions                         *)
C4_Witness ==
    \E x \in ToPlay \cap {Newest} :
      /\ game[x].reflected_trumps # << >>
      /\ game[x].cards_to_defend # << >>
      /\ \E a \in allowed_plays(World(x)) : a[1] = "Defend"

(* ------------------------------ card count ----------------------------- *)
RECURSIVE SumLen(_, _)
SumLen(hand, n) == IF n = 0 THEN 0 ELSE Len(hand[n]) + SumLen(hand, n - 1)

CardCount(G) ==
    Len(G.deck) + SumLen(G.hand, Len(G.players))
      + Len(G.cards_to_defend) + 2 * Len(G.pairs_finished)

(* C5 as claimed: after every execute_action exactly NumCards cards are    *)
(* in the deck, the hands, cards_to_defend and pairs_finished together.    *)
C5_AllCardsInPlay == \A x \in Live : CardCount(game[x]) = NumCards

ClosedByDefence(G, G2) ==
    /\ G2.history[Len(G2.history)][1] = "PassAttack"
    /\ G.pairs_finished # << >>
    /\ G2.pairs_finished = << >>

(* execute_action ran on game x in this step ("c" is only ever copied) *)
Executed(x) ==
    IF x = "g" THEN ExecutedOnCopy ELSE x = "o" /\ ExecutedOnOriginal

CountStep(x) ==
    Executed(x)
      => CardCount(game'[x])
           = CardCount(PreOf(x))
               - (IF ClosedByDefence(PreOf(x), game'[x])
                  THEN 2 * Len(PreOf(x).pairs_finished) ELSE 0)

(* C5 amended: the game starts with NumCards cards in the deck and the     *)
(* hands; every execute_action keeps the number of cards in the deck, the  *)
(* hands, cards_to_defend and pairs_finished, except the PassAttack that   *)
(* closes a trick by successful defence, which takes exactly the finished  *)
(* pairs (two cards each) out of play.                                     *)
C5_CardsLeaveOnlyByDefence ==
    /\ CardCount(game["o"]) = NumCards
    /\ [][ \A x \in Slots : CountStep(x) ]_vars

(* a trick has closed by successful defence *)
C5_Witness ==
    /\ game["o"].made
    /\ CardCount(game["o"]) < NumCards
    /\ game["o"].pairs_finished = << >>

(* ------------------------------ trump suit ----------------------------- *)
(* C6 as claimed: in the real game and in every copy every card has        *)
(* trump_suit equal to the suit of the bottom card.                        *)
C6_TrumpSuitEverywhere ==
    \A x \in Live :
      \A i \in 1 .. NumCards : cards[Cell(x, i)].trump_suit = BottomSuit(x)

(* C7 as claimed: in the Defend phase, for each card of the defender's     *)
(* hand and each identity (s, v) it can have, Defend(s, v) is offered if   *)
(* and only if s is the trump suit and the card to defend is no trump, or  *)
(* s is the suit of the card to defend and v exceeds its value.            *)
C7_DefendRule ==
    \A x \in ToPlay :
      (game[x].current_action = "Defend" /\ game[x].cards_to_defend # << >>) =>
        LET W == World(x)
            p == game[x].player_to_play
            to_defend == cards[Head(game[x].cards_to_defend)]
            trump == BottomSuit(x)
            offered == { a[2] : a \in { b \in allowed_plays(W) : b[1] = "Defend" } }
        IN  \A y \in Range(game[x].hand[p]) :
              \A c \in Identities(W, p, cards[y]) :
                (c \in offered) <=>
                  \/ c[1] = trump /\ to_defend.suit # trump
                  \/ c[1] = to_defend.suit /\ c[2] > to_defend.value

(* ------------------------------ choose_action -------------------------- *)
(* C9: the action choose_action returns is, without its weight, one of the *)
(* actions allowed in the real state after the player's hand is known.     *)
C9_ChosenIsAllowed ==
    pc = "chosen" =>
      Strip(ret) \in { Strip(a) : a \in allowed_plays(World("o")) }

(* a determinized search chose a card to defend with *)
C9_Witness ==
    /\ pc = "chosen"
    /\ kind = "DeterminizedMCTS"
    /\ game["c"].made
    /\ ret[1] = "Defend"

(* C10: a search never changes the state it decides for: while it runs the *)
(* original keeps every field and every card, and what choose_action does  *)
(* before it copies is to bind Unknown cards of the player's hand Private. *)
OnlyHandBound ==
    /\ game'["o"] = game["o"]
    /\ \A i \in 1 .. NumCards :
         LET y == Cell("o", i)
         IN  \/ cards'[y] = cards[y]
             \/ /\ cards[y].is_unknown
                /\ y \in Range(game["o"].hand[game["o"].player_to_play])
                /\ cards'[y].is_private /\ ~cards'[y].is_public /\ ~cards'[y].is_unknown
                /\ Ident(cards'[y]) \in all_cards
                /\ cards'[y].trump_suit = cards[y].trump_suit

C10_SearchKeepsOriginal ==
    [][ /\ pc \in {"search", "rollout"} => Same("o")
        /\ (pc = "idle" /\ pc' = "search") => OnlyHandBound ]_vars

(* a determinized rollout has played on while the original waits *)
C10_Witness ==
    /\ pc = "rollout"
    /\ kind = "DeterminizedMCTS"
    /\ Len(game["g"].history) >= Len(game["o"].history) + 2
    /\ game["g"].hand # game["o"].hand

(* ------------------------------ reflecting ----------------------------- *)
(* seat q of the players' circle, counted k seats clockwise from player p *)
SeatFrom(G, p, k) ==
    LET n == Len(G.players)
        i == CHOOSE j \in 1 .. n : G.players[j] = p
    IN  G.players[((i - 1 + k) % n) + 1]

(* the trick participant seated next clockwise of player p *)
ClockwiseOf(G, p) ==
    SeatFrom(G, p, MinOf({ k \in 1 .. Len(G.players) :
                             SeatFrom(G, p, k) \in Range(G.attackers) }))

(* C11: in the Defend phase every Reflect(s,v) offered has no finished     *)
(* pair, v the value of cards_to_defend[0] and a would-be new defender     *)
(* (next clockwise of the defender) holding at least len(cards_to_defend)  *)
(* + 1 cards; every ReflectTrump(s,v) offered has no finished pair, that   *)
(* value, s the trump suit, (s,v) not in reflected_trumps and that hand    *)
(* holding at least len(cards_to_defend) cards.                            *)
C11_ReflectOffered ==
    \A x \in ToPlay \cap {Newest} :
      game[x].current_action = "Defend" =>
        LET G == game[x]
            v0 == cards[Head(G.cards_to_defend)].value
            room == Len(G.hand[ClockwiseOf(G, G.defender)]) - Len(G.cards_to_defend)
        IN  \A a \in allowed_plays(World(x)) :
              /\ a[1] = "Reflect" =>
                   /\ G.pairs_finished = << >>
                   /\ a[2][2] = v0
                   /\ room >= 1
              /\ a[1] = "ReflectTrump" =>
                   /\ G.pairs_finished = << >>
                   /\ a[2][2] = v0
                   /\ a[2][1] = BottomSuit(x)
                   /\ a[2] \notin Range(G.reflected_trumps)
                   /\ room >= 0

(* three in the trick, and both a reflect by playing a card and a reflect *)
(* by showing a trump are offered                                         *)
C11_Witness ==
    \E x \in ToPlay \cap {Newest} :
      /\ game[x].current_action = "Defend"
      /\ Len(game[x].attackers) >= 2
      /\ \E a \in allowed_plays(World(x)) : a[1] = "Reflect"
      /\ \E a \in allowed_plays(World(x)) : a[1] = "ReflectTrump"

(* ------------------------- attacking and throwing ---------------------- *)
(* the values of the cards lying on the table of game x *)
TableValues(x) ==
    { cards[y].value :
        y \in Range(Flatten(game[x].pairs_finished)) \cup Range(game[x].cards_to_defend) }

(* C12: in the Attack phase PassAttack is offered exactly when a pair has  *)
(* been finished this trick, and then every Attack(s,v) offered has the    *)
(* value v of some card on the table.                                      *)
C12_AttackOffered ==
    \A x \in ToPlay \cap {Newest} :
      game[x].current_action = "Attack" =>
        LET acts == allowed_plays(World(x))
        IN  /\ (\E a \in acts : a[1] = "PassAttack") <=> game[x].pairs_finished # << >>
            /\ game[x].pairs_finished # << >> =>
                 \A a \in acts : a[1] = "Attack" => a[2][2] \in TableValues(x)

(* a pair is finished, the attacker holds a card of another value, and an  *)
(* Attack is offered next to PassAttack                                    *)
C12_Witness ==
    /\ Playable(game["o"])
    /\ game["o"].current_action = "Attack"
    /\ game["o"].pairs_finished # << >>
    /\ \E a \in allowed_plays(World("o")) : a[1] = "Attack"
    /\ \E y \in Range(game["o"].hand[game["o"].player_to_play]) :
         cards[y].value \notin TableValues("o")

(* the identities with a value on the table that a hand card of the player *)
(* to play in game x can have                                              *)
ThrowCandidates(x) ==
    LET W == World(x)
        p == game[x].player_to_play
    IN  { c \in UNION { IF cards[y].is_unknown THEN get_non_public_cards(W)
                        ELSE {Ident(cards[y])} : y \in Range(game[x].hand[p]) } :
            c[2] \in TableValues(x) }

(* C13: in the ThrowCards phase every payload offered that is no pass has  *)
(* at most min(len(defender.hand) - len(cards_to_defend), number of        *)
(* candidate identities, len(attacker.hand)) cards, each of a value on the *)
(* table, and the pass is always offered.                                  *)
C13_ThrowOffered ==
    \A x \in ToPlay \cap {Newest} :
      game[x].current_action = "ThrowCards" =>
        LET G == game[x]
            acts == allowed_plays(World(x))
            most == MinOf({Len(G.hand[G.defender]) - Len(G.cards_to_defend),
                           Cardinality(ThrowCandidates(x)),
                           Len(G.hand[G.player_to_play])})
        IN  /\ <<"ThrowCards", << >>>> \in acts
            /\ \A a \in acts :
                 /\ a[1] = "ThrowCards"
                 /\ Len(a[2]) <= IF most > 0 THEN most ELSE 0
                 /\ \A i \in 1 .. Len(a[2]) : a[2][i][2] \in TableValues(x)

(* a throw is offered to an attacker who holds more cards than the         *)
(* defender can still take                                                 *)
C13_Witness ==
    \E x \in ToPlay \cap {Newest} :
      /\ game[x].current_action = "ThrowCards"
      /\ \E a \in allowed_plays(World(x)) : Len(a[2]) >= 1
      /\ Len(game[x].hand[game[x].defender]) - Len(game[x].cards_to_defend)
           < Len(game[x].hand[game[x].player_to_play])

(* ------------------------- the seats after a reflect -------------------- *)
LastAction(G) == G.history[Len(G.history)]

(* execute_action ran a Reflect or ReflectTrump on game x in this step *)
ReflectStep(x) ==
    Executed(x) /\ LastAction(game'[x])[1] \in {"Reflect", "ReflectTrump"}

(* the identities of the cards of game G at the cells s, read in heap h *)
IdentsOf(h, s) == [i \in 1 .. Len(s) |-> Ident(h[s[i]])]

(* what a reflect does to the seats and the table, but for draw_order *)
ReflectSeats(x) ==
    LET G == PreOf(x)
        G2 == game'[x]
        a == LastAction(G2)
    IN  /\ G2.defender = ClockwiseOf(G, G.defender)
        /\ G.defender \in Range(G2.attackers)
        /\ G2.defender \notin Range(G2.attackers)
        /\ Range(G2.attackers) \cup {G2.defender} = Range(G.attackers) \cup {G.defender}
        /\ IdentsOf(cards', G2.cards_to_defend)
             = IdentsOf(cards, G.cards_to_defend)
                 \o (IF a[1] = "Reflect" THEN <<a[2]>> ELSE << >>)
        /\ G2.current_action = "Defend"
        /\ G2.player_to_play = G2.defender

(* C14 as claimed: after a Reflect or ReflectTrump the new defender is the *)
(* participant next clockwise of the reflecting defender, who becomes an   *)
(* attacker; the pile stays on the table; current_action is Defend and the *)
(* new defender is to play; draw_order is attackers followed by defender.  *)
C14_ReflectSeating ==
    [][ \A x \in {"o", "g"} :
          ReflectStep(x) =>
            /\ ReflectSeats(x)
            /\ game'[x].draw_order = game'[x].attackers \o <<game'[x].defender>> ]_vars

(* the attackers in the order they had before the pivot: the last first *)
BeforePivot(s) == <<s[Len(s)]>> \o SubSeq(s, 1, Len(s) - 1)

(* C14 amended: as claimed for the new defender, the reflecting defender,  *)
(* the pile, the phase and the player to play; draw_order is the attackers *)
(* in the order they had before the pivot of the attackers list (the last  *)
(* of attackers first), followed by the new defender; with two or more     *)
(* attackers it differs from attackers followed by the defender.           *)
C14_ReflectSeatingDrawOrder ==
    [][ \A x \in {"o", "g"} :
          ReflectStep(x) =>
            /\ ReflectSeats(x)
            /\ game'[x].draw_order
                 = BeforePivot(game'[x].attackers) \o <<game'[x].defender>> ]_vars

(* the real game after a reflect among three players *)
C14_Witness ==
    /\ game["o"].made
    /\ game["o"].history # << >>
    /\ LastAction(game["o"])[1] \in {"Reflect", "ReflectTrump"}
    /\ Len(game["o"].attackers) >= 2
    /\ game["o"].draw_order # game["o"].attackers \o <<game["o"].defender>>

(* the player whose turn it is among the attackers of game G *)
CurrentAttacker(G) == At(G.attackers, G.current_attacker)

(* C15 as claimed: after a Reflect or ReflectTrump the player at           *)
(* attackers[current_attacker] is the player who was the current attacker  *)
(* immediately before the reflect.                                         *)
C15_AttackerKeepsPriority ==
    [][ \A x \in {"o", "g"} :
          ReflectStep(x) => CurrentAttacker(game'[x]) = CurrentAttacker(PreOf(x)) ]_vars

(* C15 amended: after a Reflect or ReflectTrump current_attacker is        *)
(* unchanged and the player at attackers[current_attacker] is the          *)
(* reflecting defender; the former current attacker is the new defender if *)
(* he was the only attacker and else the last of the attackers.            *)
C15_ReflectorGetsPriority ==
    [][ \A x \in {"o", "g"} :
          ReflectStep(x) =>
            LET G == PreOf(x)
                G2 == game'[x]
            IN  /\ G2.current_attacker = G.current_attacker
                /\ CurrentAttacker(G2) = G.defender
                /\ IF Len(G.attackers) = 1
                   THEN G2.defender = CurrentAttacker(G)
                   ELSE G2.attackers[Len(G2.attackers)] = CurrentAttacker(G) ]_vars

(* after a reflect among three players the reflecting player is the        *)
(* current attacker and the one who attacked is the last of the attackers  *)
C15_Witness ==
    \E x \in {"o", "g"} :
      /\ game[x].made
      /\ game[x].history # << >>
      /\ LastAction(game[x])[1] = "ReflectTrump"
      /\ Len(game[x].attackers) >= 2
      /\ CurrentAttacker(game[x]) = game[x].last_played_attacker

(* --------------------------- showing a trump --------------------------- *)
TrumpShown(x) == Executed(x) /\ LastAction(game'[x])[1] = "ReflectTrump"

(* execute_action on game x closed a trick and opened the next one *)
TrickOpens(x) ==
    /\ Executed(x)
    /\ LastAction(game'[x])[1] \in {"PassAttack", "ThrowCards"}
    /\ game'[x].pairs_finished = << >>
    /\ game'[x].cards_to_defend = << >>
    /\ ~game'[x].is_end_state

PosOf(G, y) == CHOOSE i \in 1 .. Len(G.card_collection) : G.card_collection[i] = y

PosSeq(G, s) == [i \in 1 .. Len(s) |-> PosOf(G, s[i])]

(* the cards, by place in card_collection, that lie in the finished pairs *)
PairPos(G) == { PosOf(G, y) : y \in Range(Flatten(G.pairs_finished)) }

(* the cards that are in the deck, a hand or on the table *)
InPlayPos(G) ==
    { PosOf(G, y) : y \in Range(G.deck) \cup Range(G.cards_to_defend)
                          \cup UNION { Range(G.hand[q]) : q \in DOMAIN G.hand } }
    \cup PairPos(G)

(* the finished pairs of G are gone from every place in G2 *)
DefenceClose(G, G2) ==
    G.pairs_finished # << >> /\ PairPos(G) \cap InPlayPos(G2) = {}

(* the PassAttack a brings the turn back to the attacker who played last *)
Returned(G, a) ==
    /\ a[1] = "PassAttack"
    /\ At(G.attackers, (G.current_attacker + 1) % Len(G.attackers))
         = G.last_played_attacker

(* as many PassAttack as there are attackers end the history of G2 *)
AllPassed(G, G2) ==
    LET n == Len(G.attackers)
        h == G2.history
    IN  Len(h) >= n /\ \A i \in (Len(h) - n + 1) .. Len(h) : h[i][1] = "PassAttack"

IsPrefix(s, t) == Len(s) <= Len(t) /\ SubSeq(t, 1, Len(s)) = s

(* between G and G2 cards move only from the top of the deck to the end of *)
(* hands                                                                   *)
OnlyRefills(G, G2) ==
    /\ \A q \in DOMAIN G.hand : IsPrefix(PosSeq(G, G.hand[q]), PosSeq(G2, G2.hand[q]))
    /\ Len(G2.deck) <= Len(G.deck)
    /\ PosSeq(G2, G2.deck)
         = SubSeq(PosSeq(G, G.deck), Len(G.deck) - Len(G2.deck) + 1, Len(G.deck))
    /\ G2.cards_to_defend = << >>

(* C17: execute_action closes a trick by successful defence exactly when   *)
(* it is a PassAttack that brings current_attacker back to                 *)
(* last_played_attacker, which is when every attacker has passed in turn;  *)
(* on that close the finished pairs leave the deck, the hands and the      *)
(* table, nothing else moves but cards drawn from the deck into hands, and *)
(* no card that has left ever comes back.                                  *)
C17_ClosedByDefence ==
    [][ \A x \in {"o", "g"} :
          Executed(x) =>
            LET G == PreOf(x)
                G2 == game'[x]
                a == LastAction(G2)
            IN  /\ DefenceClose(G, G2) <=> Returned(G, a)
                /\ Returned(G, a) <=> (a[1] = "PassAttack" /\ AllPassed(G, G2))
                /\ DefenceClose(G, G2) => OnlyRefills(G, G2)
                /\ InPlayPos(G2)
                     = InPlayPos(G) \ (IF DefenceClose(G, G2) THEN PairPos(G) ELSE {}) ]_vars

(* three play; a second attacker has added a card, both attackers passed,  *)
(* the pairs are gone and cards were drawn                                 *)
C17_Witness ==
    \E x \in {"o", "g"} :
      /\ Playable(game[x])
      /\ Len(game[x].players) = 3
      /\ Len(game[x].history) >= 6
      /\ LastAction(game[x])[1] = "PassAttack"
      /\ game[x].history[Len(game[x].history) - 1][1] = "PassAttack"
      /\ game[x].pairs_finished = << >>
      /\ Cardinality(InPlayPos(game[x])) = NumCards - 4

(* ------------------------------ taking --------------------------------- *)
(* the number of ThrowCards actions that end the history h *)
RECURSIVE TrailingThrows(_)
TrailingThrows(h) ==
    IF h = << >> \/ h[Len(h)][1] # "ThrowCards" THEN 0
    ELSE 1 + TrailingThrows(SubSeq(h, 1, Len(h) - 1))

(* the defender of G has taken the table of G and the cards thrown by a *)
TakeClose(G, G2, a) ==
    LET d == G.defender
        old == PosSeq(G, G.hand[d])
        new == PosSeq(G2, G2.hand[d])
        table == PosSeq(G, Flatten(G.pairs_finished) \o G.cards_to_defend)
        thrown == SubSeq(new, Len(old) + Len(table) + 1, Len(new))
    IN  /\ IsPrefix(old \o table, new)
        /\ Len(thrown) = Len(a[2])
        /\ Range(thrown) \subseteq Range(PosSeq(G, G.hand[G.player_to_play]))
        /\ G2.pairs_finished = << >>
        /\ G2.cards_to_defend = << >>

(* C18: Take starts the throwing with the current attacker; every          *)
(* ThrowCards passes the turn to the next attacker in rotation, and the    *)
(* throw of the last attacker, one turn each, closes the trick: the        *)
(* defender's hand gains exactly the finished pairs, the undefended cards  *)
(* and the cards thrown, and the table is empty.                           *)
C18_TakeThenThrow ==
    [][ \A x \in {"o", "g"} :
          Executed(x) =>
            LET G == PreOf(x)
                G2 == game'[x]
                a == LastAction(G2)
                n == Len(G.attackers)
                k == TrailingThrows(G2.history)
            IN  /\ a[1] = "Take" =>
                     /\ G2.current_action = "ThrowCards"
                     /\ G2.player_to_play = CurrentAttacker(G)
                     /\ G2.attackers = G.attackers /\ G2.defender = G.defender
                     /\ \A q \in DOMAIN G.hand :
                          PosSeq(G2, G2.hand[q]) = PosSeq(G, G.hand[q])
                /\ a[1] = "ThrowCards" =>
                     /\ k <= n
                     /\ G2.history[Len(G2.history) - k][1] = "Take"
                     /\ G.player_to_play
                          = At(G.attackers, (G.attacker_to_start_throwing + k - 1) % n)
                     /\ IF k < n
                        THEN /\ G2.current_action = "ThrowCards"
                             /\ G2.player_to_play
                                  = At(G.attackers, (G.attacker_to_start_throwing + k) % n)
                             /\ PairPos(G2) = PairPos(G)
                             /\ Len(G2.cards_to_defend) = Len(G.cards_to_defend) + Len(a[2])
                             /\ PosSeq(G2, G2.hand[G.defender])
                                  = PosSeq(G, G.hand[G.defender])
                        ELSE TakeClose(G, G2, a) ]_vars

(* among three the defender took after defending once; the second of two   *)
(* attackers threw a card and the defender holds pair, pile and throw      *)
C18_Witness ==
    \E x \in {"o", "g"} :
      /\ game[x].made
      /\ Len(game[x].history) >= 5
      /\ LastAction(game[x])[1] = "ThrowCards"
      /\ Len(LastAction(game[x])[2]) >= 1
      /\ game[x].history[Len(game[x].history) - 1][1] = "ThrowCards"
      /\ game[x].history[Len(game[x].history) - 2][1] = "Take"
      /\ game[x].cards_to_defend = << >>
      /\ \E q \in DOMAIN game[x].hand : Len(game[x].hand[q]) >= 4

(* --------------------------- opening a trick --------------------------- *)
(* a player of G is living if he holds a card or can draw one *)
Living(G, q) == Len(G.hand[q]) > 0 \/ Len(G.deck) > 0

(* the first living player of G at or clockwise after player p *)
NextLiving(G, p) ==
    SeatFrom(G, p, MinOf({ k \in 0 .. Len(G.players) - 1 : Living(G, SeatFrom(G, p, k)) }))

(* C19: when a trick closes and the next opens, its main attacker is the   *)
(* former defender after a successful defence and the player seated next   *)
(* clockwise of the taker after a take, or, if that player is not living,  *)
(* the next living player clockwise; the taker does not attack.            *)
C19_MainAttacker ==
    [][ \A x \in {"o", "g"} :
          TrickOpens(x) =>
            LET G == PreOf(x)
                G2 == game'[x]
                defended == LastAction(G2)[1] = "PassAttack"
                first == IF defended THEN G.defender ELSE SeatFrom(G, G.defender, 1)
            IN  /\ G2.current_attacker = 0
                /\ CurrentAttacker(G2) = NextLiving(G2, first)
                /\ G2.player_to_play = NextLiving(G2, first)
                /\ ~defended => G2.player_to_play # G.defender ]_vars

(* of three players the one seated next clockwise of the taker is out;    *)
(* the taker defends again in the next trick, against the third player    *)
C19_Witness ==
    \E x \in {"o", "g"} :
      /\ Playable(game[x])
      /\ Len(game[x].players) = 3
      /\ game[x].history # << >>
      /\ LastAction(game[x])[1] = "ThrowCards"
      /\ game[x].cards_to_defend = << >>
      /\ game[x].current_action = "Attack"
      /\ Len(game[x].attackers) = 1
      /\ ~Living(game[x], SeatFrom(game[x], game[x].defender, 1))

(* the living players of G in seat order, clockwise from player p *)
LivingFrom(G, p) ==
    SelectSeq([k \in 1 .. Len(G.players) |-> SeatFrom(G, p, k - 1)],
              LAMBDA q : Living(G, q))

(* the trick that G opens seats the living players clockwise from the main *)
(* attacker, the second of them defending                                  *)
SeatedRight(G) ==
    <<G.attackers[1], G.defender>> \o Tail(G.attackers) = LivingFrom(G, G.attackers[1])

(* C20: a trick that opens has as participants exactly the living players, *)
(* clockwise from the main attacker, the second of them as defender; and a *)
(* player with an empty hand and an empty deck stays so and is in no trick *)
(* that opens later.                                                       *)
C20_Participants ==
    /\ SeatedRight(game["o"])
    /\ [][ \A x \in {"o", "g"} :
             Executed(x) =>
               LET G == PreOf(x)
                   G2 == game'[x]
               IN  /\ TrickOpens(x) => SeatedRight(G2)
                   /\ \A q \in DOMAIN G.hand :
                        ~Living(G, q) =>
                          /\ ~Living(G2, q)
                          /\ TrickOpens(x) => q \notin Range(G2.attackers) \cup {G2.defender} ]_vars

(* the defence held and a trick opened among three players without the one *)
(* who is out                                                              *)
C20_Witness ==
    \E x \in {"o", "g"} :
      /\ Playable(game[x])
      /\ Len(game[x].players) = 3
      /\ game[x].history # << >>
      /\ LastAction(game[x])[1] = "PassAttack"
      /\ game[x].pairs_finished = << >>
      /\ Len(game[x].attackers) = 1
      /\ \E q \in DOMAIN game[x].hand : ~Living(game[x], q)

(* ------------------------------ refilling ------------------------------ *)
(* execute_action on game x closed a trick, whether or not the game ends *)
TrickCloses(x) ==
    /\ Executed(x)
    /\ LastAction(game'[x])[1] \in {"PassAttack", "ThrowCards"}
    /\ game'[x].pairs_finished = << >>
    /\ game'[x].cards_to_defend = << >>

(* the number of cards player q of G holds when the refill begins that the *)
(* action a closes the trick with                                          *)
HeldBeforeRefill(G, a, q) ==
    IF a[1] = "PassAttack" THEN Len(G.hand[q])
    ELSE Len(G.hand[q])
           - (IF q = G.player_to_play THEN Len(a[2]) ELSE 0)
           + (IF q = G.defender
              THEN 2 * Len(G.pairs_finished) + Len(G.cards_to_defend) + Len(a[2])
              ELSE 0)

(* the cards the first n players of order have drawn between G and G2 *)
RECURSIVE DrawnBy(_, _, _, _, _)
DrawnBy(G, G2, a, order, n) ==
    IF n = 0 THEN 0
    ELSE Len(G2.hand[order[n]]) - HeldBeforeRefill(G, a, order[n])
           + DrawnBy(G, G2, a, order, n - 1)

(* s is the sequence t turned: t from some place on, then t up to there *)
IsRotation(s, t) ==
    /\ Len(s) = Len(t)
    /\ \E k \in 0 .. Len(t) : s = SubSeq(t, k + 1, Len(t)) \o SubSeq(t, 1, k)

OneVisibility(cd) ==
    /\ \/ cd.is_unknown /\ ~cd.is_private /\ ~cd.is_public
       \/ ~cd.is_unknown /\ cd.is_private /\ ~cd.is_public
       \/ ~cd.is_unknown /\ ~cd.is_private /\ cd.is_public
    /\ (cd.is_private \/ cd.is_public) => Ident(cd) \in all_cards

(* the worlds determinize_hand can leave of a copy of game x *)
DeterminizedCopies(x) ==
    determinize_hand(make_deepcopy(World(x), x, "t"), game[x].player_to_play)

(* C22: after construction, make_cards_known, execute_action, reset,       *)
(* determinize_hand and random_deal, in the game and in every copy, each   *)
(* of the NumCards cards has exactly one of is_unknown, is_private and     *)
(* is_public true, and every Private or Public card has a suit and a       *)
(* value.                                                                  *)
C22_OneVisibility ==
    /\ \A x \in Live :
         /\ Len(game[x].card_collection) = NumCards
         /\ \A i \in 1 .. NumCards : OneVisibility(cards[Cell(x, i)])
    /\ \A x \in ToPlay \cap {Newest} :
         (x # "o" /\ kind = "ISMCTS") =>
           \A D \in DeterminizedCopies(x) :
             \A y \in Range(D.g.card_collection) : OneVisibility(D.h[y])

(* a random deal has made every card of the rollout's game Public, among   *)
(* them a card that the search player's snapshot holds reset to Unknown    *)
(* and the game holds Private                                              *)
C22_Witness ==
    /\ pc = "rollout"
    /\ kind = "DeterminizedMCTS"
    /\ game["g"].history = game["c"].history
    /\ \A i \in 1 .. NumCards : cards[Cell("g", i)].is_public
    /\ \E i \in 1 .. NumCards :
         /\ cards[Cell("c", i)].is_unknown
         /\ cards[Cell("o", i)].is_private

(* ------------------------- visibility over time ------------------------ *)
(* Unknown, Private, Public in the order a card passes through them *)
Rank(cd) == IF cd.is_public THEN 2 ELSE IF cd.is_private THEN 1 ELSE 0

(* the game that game x is made from when it is not yet made *)
SourceOf(x) == IF x = "g" THEN "c" ELSE "o"

(* the card at place i of card_collection that the card at place i of game *)
(* x is after the step was before it: itself, or the card it is a copy of  *)
CardBefore(x, i) ==
    IF game[x].made THEN cards[Cell(x, i)] ELSE cards[Cell(SourceOf(x), i)]

(* C23: in the real game the visibility of a card only moves forward       *)
(* (Unknown to Private, Private to Public, Unknown to Public); and a       *)
(* Public card keeps its suit, value and visibility for good, in the real  *)
(* game and in every snapshot derived from it: neither a copy, nor reset,  *)
(* nor a determinization, nor an action executed changes it.               *)
C23_VisibilityForward ==
    [][ /\ \A x \in Slots :
             game'[x].made =>
               \A i \in 1 .. NumCards :
                 /\ x = "o" => Rank(cards'[Cell("o", i)]) >= Rank(cards[Cell("o", i)])
                 /\ CardBefore(x, i).is_public =>
                      CardView(cards'[game'[x].card_collection[i]])
                        = CardView(CardBefore(x, i))
        /\ \A x \in ToPlay \cap {Newest} :
             (x # "o" /\ kind = "ISMCTS") =>
               \A D \in DeterminizedCopies(x) :
                 \A i \in 1 .. NumCards :
                   cards[Cell(x, i)].is_public =>
                     CardView(D.h[D.g.card_collection[i]]) = CardView(cards[Cell(x, i)]) ]_vars

(* a card was played in the real game; the search player's snapshot holds  *)
(* it Public as the game does, and so does the random deal made of the     *)
(* snapshot, which has made Public a card the snapshot holds reset and the *)
(* game holds Private                                                      *)
C23_Witness ==
    /\ pc = "rollout"
    /\ kind = "DeterminizedMCTS"
    /\ game["o"].history # << >>
    /\ \E i \in 1 .. NumCards - 1 :
         /\ cards[Cell("o", i)].is_public
         /\ CardView(cards[Cell("c", i)]) = CardView(cards[Cell("o", i)])
         /\ CardView(cards[Cell("g", i)]) = CardView(cards[Cell("o", i)])
    /\ \E j \in 1 .. NumCards :
         /\ cards[Cell("o", j)].is_private
         /\ cards[Cell("c", j)].is_unknown
         /\ cards[Cell("g", j)].is_public

(* ------------------------------- C24 ----------------------------------- *)
(* the history a node's game state was reached by *)
HistoryOf(node) == node.game_state.g.history

(* C24: within one do_rollouts call the history identifies the ChooseNode: *)
(* a state reached again, terminal or not, is met at the node made for it  *)
(* before, so that no two of the nodes made hold states of equal history.  *)
C24_NodePerHistory ==
    \A i, j \in DOMAIN nodes : i # j => HistoryOf(nodes[i]) # HistoryOf(nodes[j])

(* ------------------------------- C25 ----------------------------------- *)
(* C25: every ChooseNode made during do_rollouts holds a state that is an  *)
(* end state or has the perspective player to play, the perspective player *)
(* being the player the tree is bound to and the player who decides; a     *)
(* tree is bound to no other name than its player's, and the assertion of  *)
(* do_rollouts on the name never fails.                                    *)
C25_PerspectiveNodes ==
    /\ raised # "assert self.player_name == game_state.player_to_play.name"
    /\ \A q \in DOMAIN player_name : player_name[q] \in {None, q}
    /\ pc = "tree" =>
         LET name == player_name[game["c"].player_to_play]
         IN  /\ name = game["c"].player_to_play
             /\ \A i \in DOMAIN nodes :
                  /\ nodes[i].is_end_state = nodes[i].game_state.g.is_end_state
                  /\ \/ nodes[i].is_end_state
                     \/ nodes[i].game_state.g.player_to_play = name

(* a later decision of a player who searched before (an action with its    *)
(* weight is in the history of the game), with a node behind two or more   *)
(* actions and a node of an end state                                      *)
C25_Witness ==
    /\ pc = "tree"
    /\ \E i \in DOMAIN nodes :
         /\ i > 1
         /\ ~nodes[i].is_end_state
         /\ nodes[i].game_state.g.player_to_play = game["c"].player_to_play
         /\ Len(HistoryOf(nodes[i])) >= Len(HistoryOf(nodes[1])) + 3
    /\ \E j \in DOMAIN nodes : nodes[j].is_end_state


(* ------------------------------- weights ------------------------------- *)
RECURSIVE WeightSum(_)
WeightSum(A) ==
    IF A = {} THEN <<0, 1>>
    ELSE LET a == CHOOSE b \in A : TRUE
         IN  FracAdd(a[3], WeightSum(A \ {a}))

(* the hand cards of the player to play in x whose list is not empty *)
Defending(x) ==
    { i \in DOMAIN game[x].hand[game[x].player_to_play] :
        CardDefend(World(x), game[x].player_to_play,
                   cards[game[x].hand[game[x].player_to_play][i]]) # {} }

Reflecting(x) ==
    { i \in DOMAIN game[x].hand[game[x].player_to_play] :
        CardReflect(World(x), game[x].player_to_play,
                    cards[game[x].hand[game[x].player_to_play][i]]) # {} }

(* the hand cards of the player to play in x that list the action k *)
Listing(x, k) ==
    { i \in DOMAIN game[x].hand[game[x].player_to_play] :
        k \in CardDefend(World(x), game[x].player_to_play,
                         cards[game[x].hand[game[x].player_to_play][i]])
              \cup CardReflect(World(x), game[x].player_to_play,
                               cards[game[x].hand[game[x].player_to_play][i]]) }

C28_BottomCard ==
    LET G == game["o"]
    IN  /\ pc = "sampled" =>
             /\ \A q \in DOMAIN G.hand : G.hand[q] = << >>
             /\ Len(G.deck) = NumCards
        /\ G.made =>
             /\ cards[G.card_collection[NumCards]].is_public
             /\ ~cards[G.card_collection[NumCards]].is_unknown
             /\ cards[G.card_collection[NumCards]].value \in 0 .. NumValues - 1
             /\ cards[G.card_collection[NumCards]].value # Ace
             /\ Range(G.deck) \subseteq Range(G.card_collection)
             /\ \A q \in DOMAIN G.hand : Range(G.hand[q]) \subseteq Range(G.card_collection)
             /\ Len(G.card_collection) = NumCards
        /\ (G.made /\ G.history = << >> /\ pc = "idle") =>
             \E bottom \in all_cards :
               /\ bottom[2] # Ace
               /\ World("o") = Construct(Len(G.players), MainAttacker, bottom)

(* the ace test sees an ace on the bottom *)
C28_Witness ==
    /\ pc = "sampled"
    /\ cards[NumCards].value = Ace
    /\ cards[NumCards].is_public

(* ------------------------- the attacker at a reflect -------------------- *)
ReflectOffered(x) ==
    /\ game[x].current_action = "Defend"
    /\ \E a \in allowed_plays(World(x)) : a[1] \in {"Reflect", "ReflectTrump"}

(* C29: whenever allowed_plays offers a Reflect or a ReflectTrump,         *)
(* current_attacker is 0 and attackers[1 % len(attackers)] is the trick    *)
(* participant seated next clockwise of the defender.                      *)
C29_ReflectAtFirstAttacker ==
    \A x \in ToPlay :
      ReflectOffered(x) =>
        /\ game[x].current_attacker = 0
        /\ At(game[x].attackers, 1 % Len(game[x].attackers))
             = ClockwiseOf(game[x], game[x].defender)

(* three in the trick, and a reflect is offered after an attacker of an    *)
(* earlier trick had passed the attack on                                  *)
C29_Witness ==
    \E x \in ToPlay :
      /\ ReflectOffered(x)
      /\ Len(game[x].attackers) = 2
      /\ \E k \in DOMAIN game[x].history : game[x].history[k][1] = "PassAttack"

(* ------------------------- phase and player to play -------------------- *)
PhaseAsserts ==
    {"assert attacker == player", "assert cards_to_defend == []",
     "assert player_to_play == defender"}

(* C30: in every non-terminal state of the real game and of every copy,    *)
(* in the Attack and the ThrowCards phase the player to play is            *)
(* attackers[current_attacker], in the Defend phase it is the defender and *)
(* cards_to_defend is not empty, in the Attack phase cards_to_defend is    *)
(* empty; and none of the three assertions on these has failed.            *)
C30_PhaseAndPlayer ==
    /\ \A x \in Live : game[x].error \notin PhaseAsserts
    /\ \A x \in ToPlay :
         LET G == game[x]
         IN  /\ G.current_action \in {"Attack", "Defend", "ThrowCards"}
             /\ G.current_action \in {"Attack", "ThrowCards"} =>
                  /\ G.current_attacker \in 0 .. Len(G.attackers) - 1
                  /\ G.player_to_play = At(G.attackers, G.current_attacker)
             /\ G.current_action = "Defend" =>
                  /\ G.player_to_play = G.defender
                  /\ G.cards_to_defend # << >>
             /\ G.current_action = "Attack" => G.cards_to_defend = << >>
             /\ allowed_error(World(x)) \notin PhaseAsserts

(* the second attacker is asked to throw on a pile that was reflected *)
C30_Witness ==
    \E x \in ToPlay :
      /\ game[x].current_action = "ThrowCards"
      /\ game[x].current_attacker >= 1
      /\ \E k \in DOMAIN game[x].history :
           game[x].history[k][1] \in {"Reflect", "ReflectTrump"}

(* ------------------------------ playouts ------------------------------- *)
(* one way to play on: defend when possible, else pass the attack on, else *)
(* attack, else throw nothing, else take, else reflect                     *)
Prio(a) ==
    CASE a[1] = "Defend" -> 1
      [] a[1] = "PassAttack" -> 2
      [] a[1] = "Attack" -> 3
      [] a[1] = "ThrowCards" /\ a[2] = << >> -> 4
      [] a[1] = "Take" -> 5
      [] OTHER -> 6

Preferred(A) == CHOOSE a \in A : \A b \in A : Prio(a) <= Prio(b)

MaxPlayout == 60

(* playing on from W in that way ends within fuel actions, with a loser *)
RECURSIVE Finishes(_, _)
Finishes(W, fuel) ==
    IF W.g.is_end_state THEN W.g.loser \in Range(W.g.players)
    ELSE IF fuel = 0 \/ W.g.error # "none" \/ allowed_plays(W) = {} THEN FALSE
    ELSE Finishes(execute_action(W, Preferred(choose_random_action(allowed_plays(W)))),
                  fuel - 1)

(* the defender takes the attack a and nobody throws *)
RECURSIVE NobodyThrows(_, _)
NobodyThrows(W, n) ==
    IF n = 0 \/ W.g.current_action # "ThrowCards" \/ ~Playable(W.g) THEN W
    ELSE NobodyThrows(execute_action(W, <<"ThrowCards", << >>>>), n - 1)

TakenTrick(W) ==
    IF ~Playable(W.g) \/ W.g.current_action # "Attack" THEN {}
    ELSE { [V EXCEPT !.g.history = << >>] :
             V \in { NobodyThrows(execute_action(execute_action(W, a), <<"Take", None>>),
                                  MaxPlayers) :
                     a \in { b \in allowed_plays(W) : b[1] = "Attack" } } }

TakenTricks(S) == UNION { TakenTrick(W) : W \in S }

MaxCycle == 12

(* some chain of at most n such tricks leads from a world of S to W *)
RECURSIVE LeadsBack(_, _, _)
LeadsBack(W, S, n) ==
    IF n = 0 THEN FALSE
    ELSE LET T == TakenTricks(S) IN W \in T \/ LeadsBack(W, T, n - 1)

RoundLeft(G) ==
    LET n == Len(G.attackers)
    IN  IF G.current_action = "ThrowCards"
        THEN n - ((G.current_attacker + n - G.attacker_to_start_throwing) % n)
        ELSE IF G.current_action = "Attack" /\ G.last_played_attacker \in Range(G.attackers)
        THEN LET last == CHOOSE i \in 0 .. n - 1 : At(G.attackers, i) = G.last_played_attacker
             IN  ((last + n - G.current_attacker - 1) % n) + 1
        ELSE 0

(* what a trick can still use up: the cards in the hands, the trumps not   *)
(* yet shown, the take, and the steps left in the round                    *)
TrickRank(G) ==
    (2 * (SumLen(G.hand, Len(G.players)) + NumValues - Len(G.reflected_trumps))
       + (IF G.current_action = "ThrowCards" THEN 0 ELSE 1)) * (MaxPlayers + 1)
    + RoundLeft(G)

(* the action a, executed in W with result V, closed the trick *)
ClosesTrick(a, V) ==
    \/ V.g.is_end_state
    \/ /\ a[1] \in {"PassAttack", "ThrowCards"}
       /\ V.g.pairs_finished = << >>
       /\ V.g.cards_to_defend = << >>

(* C31: every legal action that does not close the trick lowers a rank     *)
(* made of the hand cards, the trumps not yet shown for a reflect, the     *)
(* take and the steps left in the round of passes or throws, so no trick   *)
(* goes on forever; when PassAttack is legal last_played_attacker is one   *)
(* of the attackers, and in the throw phase attacker_to_start_throwing     *)
(* indexes the attackers.                                                  *)
C31_TrickEnds ==
    \A x \in ToPlay :
      LET W == World(x)
      IN  /\ TrickRank(W.g) >= 0
          /\ W.g.current_action = "ThrowCards" =>
               W.g.attacker_to_start_throwing \in 0 .. Len(W.g.attackers) - 1
          /\ \A a \in choose_random_action(allowed_plays(W)) :
               LET V == execute_action(W, a)
               IN  /\ a[1] = "PassAttack" =>
                        W.g.last_played_attacker \in Range(W.g.attackers)
                   /\ a[1] \in {"Attack", "Defend", "Reflect"}
                        => SumLen(V.g.hand, Len(V.g.players))
                             = SumLen(W.g.hand, Len(W.g.players)) - 1
                   /\ a[1] = "ReflectTrump"
                        => Len(V.g.reflected_trumps) = Len(W.g.reflected_trumps) + 1
                   /\ ~ClosesTrick(a, V) =>
                        /\ V.g.error = "none"
                        /\ TrickRank(V.g) < TrickRank(W.g)

(* three attackers' turns into a round of passes after a reflect by a      *)
(* shown trump: the second attacker can pass the attack on                 *)
C31_Witness ==
    \E x \in ToPlay :
      /\ game[x].current_action = "Attack"
      /\ game[x].current_attacker >= 1
      /\ game[x].reflected_trumps # << >>
      /\ \E a \in allowed_plays(World(x)) : a[1] = "PassAttack"

(* ------------------------------ can_throw ------------------------------ *)
(* hand card i of player p admits the identity c *)
Admits(W, p, fallback_identities, i, c) ==
    IF W.h[Hand(W, p)[i]].is_unknown THEN c \in fallback_identities
    ELSE Ident(W.h[Hand(W, p)[i]]) = c

(* the throws cs can be given to different hand cards out of free, each to *)
(* one that admits it                                                      *)
RECURSIVE Assignable(_, _, _, _, _)
Assignable(W, p, fallback_identities, cs, free) ==
    IF cs = << >> THEN TRUE
    ELSE \E i \in free :
           /\ Admits(W, p, fallback_identities, i, Head(cs))
           /\ Assignable(W, p, fallback_identities, Tail(cs), free \ {i})

(* C32: can_throw answers true exactly when the proposed throws can be     *)
(* assigned to different hand cards, a known card admitting its own        *)
(* identity and an Unknown card any of the fallback identities.            *)
C32_GreedyIsExact ==
    pc = "asked" =>
      ret.can_throw = Assignable(World("o"), 1, ret.fallback_identities, ret.cards,
                                 DOMAIN game["o"].hand[1])

(* two throws of which the known hand card must take its own identity, a   *)
(* fallback identity as well, for the Unknown card to take the other       *)
C32_Witness ==
    /\ pc = "asked"
    /\ ret.can_throw
    /\ Len(ret.cards) = 2
    /\ \E i, j \in DOMAIN game["o"].hand[1] :
         /\ ~cards[i].is_unknown
         /\ cards[j].is_unknown
         /\ Ident(cards[i]) \in Range(ret.cards) \cap ret.fallback_identities
    /\ Cardinality(Range(ret.cards) \cap ret.fallback_identities) = 2
    /\ Len(game["o"].hand[1]) = 2

(* ---------------------------------------------------------------------- *)
(* C33: one pass of do_rollouts (MCTree and ISMCTree alike) adds exactly 1  *)
(* to N of every node on the path from the leaf up to the root and to no    *)
(* other N; it adds 1 to W of a node on the path that is not the root      *)
(* exactly when the name of the loser differs from the player to play in    *)
(* the state of the node's parent, and changes no other W; W of the root    *)
(* stays 0, and 0 <= W <= N holds at every node after the pass.            *)
RECURSIVE Ancestors(_, _)
Ancestors(ns, k) == IF k = 0 THEN {} ELSE {k} \cup Ancestors(ns, ns[k].parent)

(* the node as it was before the pass: a node the pass made starts at 0 *)
Before(k) == IF k <= Len(nodes) THEN nodes[k] ELSE MCNode(0, << >>, "None")

C33_Backpropagate ==
    [][(pc = "mct" /\ rollouts' = rollouts + 1) =>
         LET leaf_node == ret'[2]
             name_of_loser == ret'[3]
             path == Ancestors(nodes', leaf_node)
             chooser(k) == get_game_state(nodes', World("c"), nodes'[k].parent).g.player_to_play
         IN  /\ leaf_node \in 1 .. Len(nodes')
             /\ 1 \in path
             /\ nodes'[1].W = 0
             /\ \A k \in 1 .. Len(nodes') :
                  /\ nodes'[k].N = Before(k).N + (IF k \in path THEN 1 ELSE 0)
                  /\ nodes'[k].W = Before(k).W
                       + (IF k \in path /\ k # 1 /\ chooser(k) # name_of_loser
                          THEN 1 ELSE 0)
                  /\ 0 <= nodes'[k].W
                  /\ nodes'[k].W <= nodes'[k].N]_vars

(* after the last pass: a node two edges below the root has been visited,   *)
(* one node below the root has won every visit and another has lost one    *)
C33_Witness ==
    /\ pc = "mct"
    /\ rollouts = MaxMCTRollouts
    /\ nodes[1].N = MaxMCTRollouts
    /\ \E k \in 2 .. Len(nodes) :
         /\ nodes[k].parent # 1
         /\ nodes[k].N >= 1
    /\ \E i, j \in 2 .. Len(nodes) :
         /\ nodes[i].N >= 1 /\ nodes[i].W = nodes[i].N
         /\ nodes[j].W < nodes[j].N

(* ---------------------------------------------------------------------- *)
(* C35: in do_rollouts (MCTree and ISMCTree alike) over a root that is not  *)
(* an end state, once the passes made number at least the actions of the    *)
(* root plus one, every child of the root has N >= 1, also when a child of  *)
(* the root is an end state; so 'Winning percentage' never divides by 0.   *)
RootChildren == Range(nodes[1].children)

EnoughRollouts ==
    /\ pc = "mct"
    /\ nodes[1].is_explored
    /\ rollouts >= Len(nodes[1].children) + 1

C35_RootChildrenVisited ==
    EnoughRollouts =>
      /\ raised # "ZeroDivisionError"
      /\ raised = "none" => \A c \in RootChildren : nodes[c].N >= 1

(* enough passes over a root with a child that is an end state *)
C35_Witness ==
    /\ EnoughRollouts
    /\ raised = "none"
    /\ \E c \in RootChildren : get_game_state(nodes, World("c"), c).g.is_end_state

(* ---------------------------------------------------------------------- *)
(* C34: random_deal of DeterminizedMCTS, made on a copy of the snapshot     *)
(* that choose_action restricted to what the player sees, raises nothing    *)
(* (the identities never run out) and leaves every card of the collection   *)
(* Public and bound, no two cards with the same identity, all identities    *)
(* of the deck taken; a card that was Public in the snapshot and a card of  *)
(* the hand of the player to play keeps its identity.                       *)
Dealing ==
    /\ pc = "search"
    /\ pc' = "rollout"
    /\ kind = "DeterminizedMCTS"

C34_RandomDeal ==
    [][Dealing =>
         LET from == game["c"]
             to == game'["g"]
             was(i) == cards[from.card_collection[i]]
             now(i) == cards'[to.card_collection[i]]
             all == 1 .. Len(to.card_collection)
         IN  /\ to.error = "none"
             /\ Len(to.card_collection) = NumCards
             /\ \A i \in all :
                  /\ now(i).is_public
                  /\ ~now(i).is_unknown
                  /\ Ident(now(i)) \in all_cards
             /\ \A i, j \in all : i # j => Ident(now(i)) # Ident(now(j))
             /\ { Ident(now(i)) : i \in all } = all_cards
             /\ \A i \in all :
                  (\/ was(i).is_public
                   \/ from.card_collection[i] \in Range(from.hand[from.player_to_play]))
                  => Ident(now(i)) = Ident(was(i))]_vars

(* a deal has just been made of a snapshot in which the player to play     *)
(* held a Private card and two cards or more were Unknown                  *)
C34_Witness ==
    /\ pc = "rollout"
    /\ kind = "DeterminizedMCTS"
    /\ game["g"].made
    /\ game["g"].history = game["c"].history
    /\ \E x \in Range(game["c"].hand[game["c"].player_to_play]) : cards[x].is_private
    /\ Cardinality(UnknownCards(World("c"))) >= 2
    /\ \A y \in Range(game["g"].card_collection) : cards[y].is_public

(* ---------------------------------------------------------------------- *)
(* C36: in the game that main.py plays, where every player makes the cards  *)
(* of its hand known before it chooses, no two bound (Private or Public)    *)
(* cards of the card collection have the same suit and value, in any state. *)
Bound(G) == { x \in Range(G.card_collection) : ~cards[x].is_unknown }

DistinctBound(G) ==
    \A x, y \in Bound(G) : x # y => Ident(cards[x]) # Ident(cards[y])

C36_NoIdentityTwice == game["o"].made => DistinctBound(game["o"])

(* the deck has been drawn and every card of the collection is bound, some  *)
(* Private in a hand and some Public                                       *)
C36_Witness ==
    /\ pc = "idle"
    /\ Playable(game["o"])
    /\ game["o"].deck = << >>
    /\ Bound(game["o"]) = Range(game["o"].card_collection)
    /\ \E x, y \in Bound(game["o"]) : cards[x].is_private /\ cards[y].is_public

(* ---------------------------------------------------------------------- *)
(* C37: in every state inside a search of ISMCTSFPV or ISMCTS (the          *)
(* snapshot restricted to what the player sees, and the games the rollouts  *)
(* play on copies of it) no two bound cards of a card collection have the   *)
(* same suit and value.                                                     *)
InSearch == pc \in {"search", "rollout"} /\ kind \in {"ISMCTSFPV", "ISMCTS"}

C37_SearchIdentities ==
    InSearch =>
      \A s \in {"c", "g"} : game[s].made /\ game[s].error = "none" => DistinctBound(game[s])

(* ---------------------------------------------------------------------- *)
(* C38: in every game (the one played, a snapshot, a rollout) whose         *)
(* current_action is Defend or ThrowCards, cards_to_defend holds at most    *)
(* as many cards as the hand of the defender, so that the throw capacity    *)
(* len(defender.hand) - len(cards_to_defend) is never negative.            *)
Capacity(G) == Len(G.hand[G.defender]) - Len(G.cards_to_defend)

C38_DefenderCanCover ==
    \A s \in Slots :
      (Playable(game[s]) /\ game[s].current_action \in {"Defend", "ThrowCards"})
        => Capacity(game[s]) >= 0

(* after an attack and a reflect the new defender faces two cards with two  *)
(* cards in hand                                                           *)
C38_Witness ==
    /\ Playable(game["o"])
    /\ game["o"].current_action = "Defend"
    /\ Len(game["o"].cards_to_defend) = 2
    /\ Capacity(game["o"]) = 0
    /\ \E i \in 1 .. Len(game["o"].history) : game["o"].history[i][1] = "Reflect"

(* ---------------------------------------------------------------------- *)
(* the participants of the trick of game G: the first attacker, then the    *)
(* defender, then the other attackers                                       *)
Seating(G) == <<G.attackers[1], G.defender>> \o Tail(G.attackers)

(* how many seats clockwise of player p the player q sits *)
SeatsFrom(G, p, q) == CHOOSE k \in 0 .. Len(G.players) - 1 : SeatFrom(G, p, k) = q

(* the sequence s of players runs clockwise round the table, once *)
Clockwise(G, s) ==
    \A i, j \in 1 .. Len(s) : i < j => SeatsFrom(G, s[1], s[i]) < SeatsFrom(G, s[1], s[j])

(* sequence s holds each of its entries once *)
Distinct(s) == \A i, j \in 1 .. Len(s) : i # j => s[i] # s[j]

WellSeated(G) ==
    /\ Len(G.attackers) >= 1
    /\ Distinct(G.attackers)
    /\ G.defender \notin Range(G.attackers)
    /\ Len(G.draw_order) = Len(G.attackers) + 1
    /\ Range(G.draw_order) = Range(G.attackers) \cup {G.defender}
    /\ G.draw_order[Len(G.draw_order)] = G.defender
    /\ G.current_attacker >= 0
    /\ G.current_attacker < Len(G.attackers)
    /\ Clockwise(G, Seating(G))

(* C39: in every game that is not over (the one played, a snapshot, a      *)
(* rollout) the attackers are one or more distinct players, the defender   *)
(* is none of them, draw_order holds each attacker and the defender once   *)
(* with the defender last, current_attacker indexes the attackers, and     *)
(* attackers[0], defender, attackers[1:] run clockwise round the table.    *)
C39_WellSeated == \A s \in Slots : Playable(game[s]) => WellSeated(game[s])

(* three players in a trick after a reflect and a throw: the attackers     *)
(* list is pivoted, draw_order is not, and it is the second attacker's turn *)
C39_Witness ==
    /\ Playable(game["o"])
    /\ Len(game["o"].attackers) = 2
    /\ game["o"].current_attacker = 1
    /\ game["o"].draw_order # game["o"].attackers \o <<game["o"].defender>>
    /\ \E i \in 1 .. Len(game["o"].history) :
         game["o"].history[i][1] \in {"Reflect", "ReflectTrump"}

(* ---------------------------------------------------------------------- *)
(* the hands of the first n players, one after the other *)
RECURSIVE HandsOf(_, _)
HandsOf(hand, n) == IF n = 0 THEN << >> ELSE HandsOf(hand, n - 1) \o hand[n]

(* the cards of game G that are in the deck, a hand or on the table *)
Held(G) ==
    G.deck \o HandsOf(G.hand, Len(G.players)) \o G.cards_to_defend
      \o Flatten(G.pairs_finished)

(* a game that has been set up and has not failed *)
Sound(G) == G.made /\ G.error = "none"

(* C40: in every game (the one played, a snapshot, a rollout), between     *)
(* actions, no card object is twice in the deck, the hands,                *)
(* cards_to_defend and pairs_finished taken together; each of these cards  *)
(* is in card_collection; card_collection holds NumCards distinct cards;   *)
(* and no two games share a card object.                                   *)
C40_CardsOnce ==
    /\ \A s \in Slots :
         Sound(game[s]) =>
           /\ Distinct(Held(game[s]))
           /\ Range(Held(game[s])) \subseteq Range(game[s].card_collection)
           /\ Len(game[s].card_collection) = NumCards
           /\ Distinct(game[s].card_collection)
    /\ \A s, t \in Slots :
         (s # t /\ Sound(game[s]) /\ Sound(game[t])) =>
           Range(game[s].card_collection) \cap Range(game[t].card_collection) = {}

(* a rollout on a copy of a snapshot, after cards were taken and drawn:    *)
(* cards in the deck, in a pair on the table and still to defend           *)
C40_Witness ==
    /\ pc = "rollout"
    /\ Sound(game["o"]) /\ Sound(game["c"]) /\ Sound(game["g"])
    /\ game["g"].deck # << >>
    /\ game["g"].pairs_finished # << >>
    /\ \E i \in 1 .. Len(game["g"].history) : game["g"].history[i][1] = "Take"

====
